---- MODULE Spec2Model ----
(***************************************************************************)
(* Disaster-response training game: the host controller (DisasterSimGame), *)
(* the badge system and the three timed sessions (earthquake, landslide,   *)
(* flood), as one event-driven state machine.                              *)
(*                                                                         *)
(* Every handler of the program is an operator that maps a world (the      *)
(* record of all program state) to the world after the handler has run to  *)
(* its end or to the statement where it throws.  An action of the state    *)
(* machine is one browser task: a player gesture, a timer callback, an     *)
(* animation frame, or the passing of time.                                *)
(*                                                                         *)
(* The scene graph (meshes, materials, positions) is the external          *)
(* rendering layer: calls into it are no-ops of the model, and a click on  *)
(* an interactive object is a gesture that runs the object's onInteract.   *)
(* Times are milliseconds of performance.now().                            *)
(***************************************************************************)
EXTENDS Integers, Sequences, FiniteSets, TLC

VARIABLES
    game,     \* DisasterSimGame: playerData, currentSimulation, gameEngine, simulationModule
    sim,      \* the session object (EarthquakeSimulation / LandslideSimulation / FloodSimulation)
    ui,       \* the DOM panels the host drives: instructions, drag-drop, progress, badge modal
    timers,   \* pending setTimeout callbacks, in the order they were scheduled
    frames,   \* pending requestAnimationFrame callbacks
    now,      \* performance.now()
    obs,      \* observer: counts of calls made so far (no program state)
    mini      \* the globals of the 2D mini-game script (gameState, lives, player, debris, ...)

vars == <<game, sim, ui, timers, frames, now, obs, mini>>

----------------------------------------------------------------------------
(* Bounds of the exploration *)

\* how long the clock runs past the scheduled end of a session, in granules
\* (see Granule)
MaxTicks == 1
\* player gestures that change state per behaviour (a reset is one of them)
MaxInputs == 1
\* resetSimulation() calls per behaviour
MaxResets == 1
\* animation frames the display shows per second
FrameRate == 60

----------------------------------------------------------------------------
(* Small helpers *)

Min(S) == CHOOSE x \in S : \A y \in S : x <= y
Max2(a, b) == IF a >= b THEN a ELSE b

RECURSIVE GCD(_, _)
GCD(a, b) == IF b = 0 THEN a ELSE GCD(b, a % b)

RECURSIVE SeqGCD(_)
SeqGCD(s) == IF s = <<>> THEN 0 ELSE GCD(Head(s), SeqGCD(Tail(s)))

Range(s) == {s[i] : i \in 1..Len(s)}

RemoveAt(s, i) == SubSeq(s, 1, i - 1) \o SubSeq(s, i + 1, Len(s))

CountTrue(f) == Cardinality({x \in DOMAIN f : f[x]})

Disasters == {"earthquake", "landslide", "flood"}

----------------------------------------------------------------------------
(* Phase tables *)

EqPhases ==
    << [name |-> "preparation", duration |-> 30000],
       [name |-> "earthquake",  duration |-> 45000],
       [name |-> "aftermath",   duration |-> 60000],
       [name |-> "evacuation",  duration |-> 90000] >>

LsPhases ==
    << [name |-> "warning_signs",   duration |-> 45000],
       [name |-> "early_warning",   duration |-> 60000],
       [name |-> "evacuation",      duration |-> 90000],
       [name |-> "landslide_event", duration |-> 30000] >>

FlPhases ==
    << [name |-> "preparation", duration |-> 60000],
       [name |-> "early_flood", duration |-> 90000],
       [name |-> "rescue_ops",  duration |-> 120000],
       [name |-> "recovery",    duration |-> 90000] >>

Phases(type) ==
    CASE type = "earthquake" -> EqPhases
      [] type = "landslide"  -> LsPhases
      [] type = "flood"      -> FlPhases

\* phases[phaseIndex] of the source: the index is 0-based
PhaseAt(type, phaseIndex) == Phases(type)[phaseIndex + 1]

Durations(tbl) == [i \in 1..Len(tbl) |-> tbl[i].duration]

\* The clock moves in steps of the largest unit that divides every phase
\* duration, and stops at every pending timer on the way.
Granule == SeqGCD(Durations(EqPhases) \o Durations(LsPhases) \o Durations(FlPhases))

RECURSIVE SeqSum(_)
SeqSum(s) == IF s = <<>> THEN 0 ELSE Head(s) + SeqSum(Tail(s))

\* the clock stops MaxTicks granules after the last phase of a session of
\* the given type is scheduled to end
Horizon(type) == SeqSum(Durations(Phases(type))) + (MaxTicks * Granule)

----------------------------------------------------------------------------
(* The world a handler runs in *)

World == [game |-> game, sim |-> sim, ui |-> ui, timers |-> timers,
          frames |-> frames, now |-> now, obs |-> obs]

Becomes(w) ==
    /\ game' = w.game
    /\ sim' = w.sim
    /\ ui' = w.ui
    /\ timers' = w.timers
    /\ frames' = w.frames
    /\ now' = w.now
    /\ obs' = w.obs
    /\ mini' = mini

\* setTimeout(cb, delay)
SetTimeout(w, cb, delay) ==
    [w EXCEPT !.timers = Append(@, [due |-> w.now + delay, cb |-> cb])]

\* requestAnimationFrame(cb)
RequestAnimationFrame(w, cb) == [w EXCEPT !.frames = Append(@, cb)]

\* a callback closure: what it runs and what it captured
Callback(kind, arg) == [k |-> kind, a |-> arg, r |-> <<>>]
\* a button of a completion panel, which captured the results shown
ResultsCallback(kind, results) == [k |-> kind, a |-> 0, r |-> <<results>>]

----------------------------------------------------------------------------
(* DisasterSimGame: the player profile *)

\* a field that may be undefined in JavaScript: <<>> is undefined, <<v>> is v
Undefined == <<>>
Def(v) == <<v>>
IsDef(o) == o # <<>>

\* JavaScript relational operators: a comparison with undefined is false
JsGT(o, n) == IsDef(o) /\ o[1] > n
JsLE(o, n) == IsDef(o) /\ o[1] <= n

\* completedSimulations[d] when the profile has no entry for d
NoEntry ==
    [present |-> FALSE, completed |-> FALSE, score |-> 0, timeBonus |-> 0,
     accuracy |-> 0, timeElapsed |-> Undefined, completedAt |-> 0]

DefaultPlayerData ==
    [totalScore |-> 0, level |-> 1, badges |-> <<>>,
     completedSimulations |-> [d \in Disasters |-> NoEntry]]

NoSim == [type |-> "none"]

InitGame ==
    [playerData |-> DefaultPlayerData, currentSimulation |-> "none",
     gameEngine |-> FALSE, simulationModule |-> FALSE]

InitUi ==
    [instrVisible |-> FALSE, instrActions |-> <<>>,
     ddVisible |-> FALSE, ddItems |-> <<>>, ddZones |-> <<>>,
     progress |-> 0, badgeModal |-> "none"]

InitObs ==
    [inputs |-> 0, resets |-> 0, completions |-> 0, enteredAt |-> 0,
     entries |-> [p \in 0..3 |-> 0], acked |-> FALSE, reports |-> 0,
     check |-> <<>>, drop |-> <<>>, modals |-> 0, alerts |-> 0, exits |-> 0,
     hostResets |-> 0, load |-> <<>>, start |-> <<>>, result |-> <<>>,
     burst |-> <<>>]

----------------------------------------------------------------------------
(* DisasterSimGame: the panels *)

UpdateProgress(w, percentage) == [w EXCEPT !.ui.progress = percentage]

\* with no actions given the panel gets a default Continue button that hides it
ShowInstructions(w, actions) ==
    [w EXCEPT !.ui.instrVisible = TRUE,
              !.ui.instrActions =
                  IF actions = <<>> THEN << Callback("hideInstructions", 0) >> ELSE actions]

HideInstructions(w) == [w EXCEPT !.ui.instrVisible = FALSE]

\* items: <<[id, type]>>, dropZones: <<[id, accepts]>>
ShowDragDropPanel(w, items, dropZones) ==
    [w EXCEPT !.ui.ddVisible = TRUE, !.ui.ddItems = items, !.ui.ddZones = dropZones]

HideDragDropPanel(w) == [w EXCEPT !.ui.ddVisible = FALSE]

ShowBadgeModal(w, badgeId) ==
    [w EXCEPT !.ui.badgeModal = badgeId, !.obs.modals = @ + 1]

----------------------------------------------------------------------------
(* BadgeSystem *)

\* requirements of a badge; a requirement the badge does not declare is
\* falsy (0, FALSE, ""), as an absent property is in the source
NoReq ==
    [completeSimulation |-> "", minScore |-> 0, maxTime |-> 0,
     completeAllSimulations |-> FALSE, totalScore |-> 0, completeAnyIn |-> 0,
     perfectAccuracy |-> FALSE, evacuateAll |-> FALSE, completeTutorials |-> 0]

BadgeIds ==
    {"earthquake", "landslide", "flood", "master", "speedRunner",
     "perfectionist", "lifeSaver", "educator"}

Badges(id) ==
    CASE id = "earthquake" ->
            [NoReq EXCEPT !.completeSimulation = "earthquake", !.minScore = 500, !.maxTime = 900]
      [] id = "landslide" ->
            [NoReq EXCEPT !.completeSimulation = "landslide", !.minScore = 600, !.maxTime = 1200]
      [] id = "flood" ->
            [NoReq EXCEPT !.completeSimulation = "flood", !.minScore = 700, !.maxTime = 1500]
      [] id = "master" ->
            [NoReq EXCEPT !.completeAllSimulations = TRUE, !.totalScore = 2000]
      [] id = "speedRunner" -> [NoReq EXCEPT !.completeAnyIn = 300]
      [] id = "perfectionist" -> [NoReq EXCEPT !.perfectAccuracy = TRUE]
      [] id = "lifeSaver" -> [NoReq EXCEPT !.evacuateAll = TRUE]
      [] id = "educator" -> [NoReq EXCEPT !.completeTutorials = 3]

\* getBadgeForDisaster(disasterType).id
GetBadgeForDisaster(disasterType) == disasterType

\* Object.values(playerStats.completedSimulations)
CompletedValues(playerStats) ==
    {playerStats.completedSimulations[d] :
        d \in {x \in Disasters : playerStats.completedSimulations[x].present}}

CheckBadgeRequirements(badgeId, playerStats) ==
    IF badgeId \notin BadgeIds THEN FALSE
    ELSE
      LET req == Badges(badgeId)
          simulation ==
              IF req.completeSimulation # ""
              THEN playerStats.completedSimulations[req.completeSimulation]
              ELSE NoEntry
      IN  IF req.completeSimulation # "" /\ (~simulation.present \/ ~simulation.completed)
            THEN FALSE
          ELSE IF req.completeSimulation # "" /\ req.minScore # 0
                  /\ simulation.score < req.minScore
            THEN FALSE
          ELSE IF req.completeSimulation # "" /\ req.maxTime # 0
                  /\ JsGT(simulation.timeElapsed, req.maxTime)
            THEN FALSE
          ELSE IF req.completeAllSimulations
                  /\ ~(\A s \in Disasters :
                          /\ playerStats.completedSimulations[s].present
                          /\ playerStats.completedSimulations[s].completed)
            THEN FALSE
          ELSE IF req.totalScore # 0 /\ playerStats.totalScore < req.totalScore
            THEN FALSE
          ELSE IF req.completeAnyIn # 0
                  /\ ~(\E s \in CompletedValues(playerStats) :
                          JsLE(s.timeElapsed, req.completeAnyIn))
            THEN FALSE
          ELSE IF req.perfectAccuracy
                  /\ ~(\E s \in CompletedValues(playerStats) : s.accuracy >= 100)
            THEN FALSE
          ELSE TRUE

\* getEarnedBadges(playerStats), as the set of their ids
GetEarnedBadges(playerStats) ==
    {b \in BadgeIds : CheckBadgeRequirements(b, playerStats)}

----------------------------------------------------------------------------
(* DisasterSimGame.completeSimulation *)

Includes(s, x) == \E i \in 1..Len(s) : s[i] = x

\* an entry whose score is the total added to the profile
CompletionEntryTotal(results, at) ==
    [present |-> TRUE, completed |-> TRUE, score |-> results.score + results.timeBonus,
     timeBonus |-> results.timeBonus, accuracy |-> results.accuracy,
     timeElapsed |-> Undefined, completedAt |-> at]

\* the entry written for results.disaster; it carries no timeElapsed
CompletionEntry(results, at) ==
    [present |-> TRUE, completed |-> TRUE, score |-> results.score,
     timeBonus |-> results.timeBonus, accuracy |-> results.accuracy,
     timeElapsed |-> Undefined, completedAt |-> at]

NewLevel(totalScore) == (totalScore \div 1000) + 1

\* completeSimulation that awards the disaster's badge at every call
GameCompleteSimulationAlways(w, results) ==
    LET pd0 == w.game.playerData
        total == pd0.totalScore + results.score + results.timeBonus
        entries == [pd0.completedSimulations EXCEPT
                       ![results.disaster] = CompletionEntry(results, w.now)]
        level == IF NewLevel(total) > pd0.level THEN NewLevel(total) ELSE pd0.level
        badge == GetBadgeForDisaster(results.disaster)
        badges1 == Append(pd0.badges, badge)
        completedAll == \A d \in Disasters : entries[d].present
        badges2 == IF completedAll /\ ~Includes(badges1, "master")
                   THEN Append(badges1, "master") ELSE badges1
        w1 == [w EXCEPT !.game.playerData =
                   [totalScore |-> total, level |-> level, badges |-> badges2,
                    completedSimulations |-> entries],
                        !.obs.reports = @ + 1]
    IN  ShowBadgeModal(w1, badge)

\* results: [disaster, score, timeBonus, accuracy]
GameCompleteSimulation(w, results) ==
    LET pd0 == w.game.playerData
        total == pd0.totalScore + results.score + results.timeBonus
        entries == [pd0.completedSimulations EXCEPT
                       ![results.disaster] = CompletionEntry(results, w.now)]
        level == IF NewLevel(total) > pd0.level THEN NewLevel(total) ELSE pd0.level
        badge == GetBadgeForDisaster(results.disaster)
        isNew == ~Includes(pd0.badges, badge)
        badges1 == IF isNew THEN Append(pd0.badges, badge) ELSE pd0.badges
        completedAll == \A d \in Disasters : entries[d].present
        badges2 == IF completedAll /\ ~Includes(badges1, "master")
                   THEN Append(badges1, "master") ELSE badges1
        w1 == [w EXCEPT !.game.playerData =
                   [totalScore |-> total, level |-> level, badges |-> badges2,
                    completedSimulations |-> entries],
                        !.obs.reports = @ + 1]
    IN  IF isNew THEN ShowBadgeModal(w1, badge) ELSE w1

----------------------------------------------------------------------------
(* Scoring shared by the sessions' calculateFinalScore *)

\* the time bonus without its floor of 0
TimeBonusUnclamped(maxTime, elapsedMs) ==
    ((maxTime * 1000 - elapsedMs) * 200) \div (maxTime * 1000)

\* Math.max(0, Math.floor((maxTime - timeElapsed) / maxTime * 200)) with
\* timeElapsed = elapsedMs / 1000, in exact arithmetic
TimeBonus(maxTime, elapsedMs) ==
    Max2(0, ((maxTime * 1000 - elapsedMs) * 200) \div (maxTime * 1000))

\* Math.floor(accuracy * 2); accuracy is an integer in every session
AccuracyBonus(accuracy) == accuracy * 2

\* Object.values(objectives).filter(Boolean).length * 100
ObjectiveBonus(objectives) == CountTrue(objectives) * 100

\* observer: startPhase(phaseIndex) entered a phase
NotePhaseEntry(w, phaseIndex) ==
    [w EXCEPT !.obs.enteredAt = w.now, !.obs.entries[phaseIndex] = @ + 1]

----------------------------------------------------------------------------
(* EarthquakeSimulation *)

EqTotalStudents == 8
EqMaxMistakes == 3
EqMaxTime == 300

EqStudentIds == 0..(EqTotalStudents - 1)
\* createDesks: 4 rows of 2
EqDeskIds == 0..7

\* `student_${index}`, `desk_${index}`: the id is the prefix and the index
ItemId(prefix, index) == <<prefix, index>>
\* parseInt(id.split('_')[1])
ParseIndex(id) == id[2]

EqObjectives ==
    [dropCoverHold |-> FALSE, stayCalm |-> FALSE, checkInjuries |-> FALSE,
     evacuateSafely |-> FALSE, assembleAtSafePoint |-> FALSE]

\* constructor, and createClassroomScene as far as it makes session state.
\* students holds the student objects, which the callbacks that captured
\* them keep; listed: the arrays students, desks and exitDoors still list
\* their objects (cleanup empties the arrays)
EqNew ==
    [type |-> "earthquake", currentPhase |-> 0, score |-> 0, startTime |-> 0,
     accuracy |-> 100, mistakes |-> 0, phaseStartTime |-> 0,
     isEarthquakeActive |-> FALSE, evacuatedStudents |-> 0,
     objectives |-> EqObjectives,
     listed |-> TRUE,
     students |-> [i \in EqStudentIds |-> [safe |-> FALSE, evacuated |-> FALSE]]]

EqShowEducationalInfo(w) == ShowInstructions(w, << Callback("hideInstructions", 0) >>)

\* a calculateFinalScore that takes the clock for the time elapsed
EqCalculateFinalScoreClock(w) ==
    LET elapsedMs == w.now
        baseScore == w.sim.score
        timeBonus == TimeBonus(EqMaxTime, elapsedMs)
        accuracyBonus == AccuracyBonus(w.sim.accuracy)
        objectiveBonus == ObjectiveBonus(w.sim.objectives)
    IN  [baseScore |-> baseScore, timeBonus |-> timeBonus,
         accuracyBonus |-> accuracyBonus, objectiveBonus |-> objectiveBonus,
         rescueBonus |-> 0, supplyBonus |-> 0,
         total |-> baseScore + timeBonus + accuracyBonus + objectiveBonus,
         timeElapsed |-> elapsedMs \div 1000, accuracy |-> w.sim.accuracy]

EqCalculateFinalScore(w) ==
    LET elapsedMs == w.now - w.sim.startTime
        baseScore == w.sim.score
        timeBonus == TimeBonus(EqMaxTime, elapsedMs)
        accuracyBonus == AccuracyBonus(w.sim.accuracy)
        objectiveBonus == ObjectiveBonus(w.sim.objectives)
    IN  [baseScore |-> baseScore, timeBonus |-> timeBonus,
         accuracyBonus |-> accuracyBonus, objectiveBonus |-> objectiveBonus,
         rescueBonus |-> 0, supplyBonus |-> 0,
         total |-> baseScore + timeBonus + accuracyBonus + objectiveBonus,
         timeElapsed |-> elapsedMs \div 1000, accuracy |-> w.sim.accuracy]

\* the "View Results" button captures the results computed now
EqCompleteSimulation(w) ==
    LET results == EqCalculateFinalScore(w)
        w1 == UpdateProgress(w, 100)
        w2 == ShowInstructions(w1, << ResultsCallback("viewResults", results) >>)
    IN  [w2 EXCEPT !.obs.completions = @ + 1]

\* callback of "View Results"
EqViewResults(w, results) ==
    GameCompleteSimulation(HideInstructions(w),
        [disaster |-> "earthquake", score |-> results.total,
         timeBonus |-> results.timeBonus, accuracy |-> results.accuracy])

EqStartPreparationPhase(w) == ShowInstructions(w, << Callback("hideInstructions", 0) >>)

EqShowEarthquakeInstructions(w) ==
    ShowInstructions(w, << Callback("startEarthquakePhase", 0) >>)

EqShowDropCoverHoldInterface(w) ==
    IF w.sim.listed
    THEN ShowDragDropPanel(w,
            [i \in 1..EqTotalStudents |-> [id |-> ItemId("student", i - 1), type |-> "person"]],
            [i \in 1..Cardinality(EqDeskIds) |->
                [id |-> ItemId("desk", i - 1), accepts |-> {"person"}]])
    ELSE ShowDragDropPanel(w, <<>>, <<>>)

EqStartEarthquakePhase(w) ==
    LET w1 == HideInstructions(w)
        w2 == [w1 EXCEPT !.sim.isEarthquakeActive = TRUE]
    IN  EqShowDropCoverHoldInterface(w2)

EqSafeCount(s) ==
    IF s.listed THEN Cardinality({i \in EqStudentIds : s.students[i].safe}) ELSE 0

\* an onCorrectDrop that asks for more than three quarters of the students
EqOnCorrectDropStrict(w, studentId, deskId) ==
    LET studentIndex == ParseIndex(studentId)
        deskIndex == ParseIndex(deskId)
    IN  IF w.sim.listed /\ studentIndex \in EqStudentIds /\ deskIndex \in EqDeskIds
        THEN LET w1 == [w EXCEPT !.sim.students[studentIndex].safe = TRUE,
                                 !.sim.score = @ + 100]
             IN  IF 4 * EqSafeCount(w1.sim) > 3 * EqTotalStudents
                 THEN [w1 EXCEPT !.sim.objectives.dropCoverHold = TRUE]
                 ELSE w1
        ELSE w

EqOnCorrectDrop(w, studentId, deskId) ==
    LET studentIndex == ParseIndex(studentId)
        deskIndex == ParseIndex(deskId)
    IN  IF w.sim.listed /\ studentIndex \in EqStudentIds /\ deskIndex \in EqDeskIds
        THEN LET w1 == [w EXCEPT !.sim.students[studentIndex].safe = TRUE,
                                 !.sim.score = @ + 100]
             IN  \* safe.length >= totalStudents * 0.75
                 IF 4 * EqSafeCount(w1.sim) >= 3 * EqTotalStudents
                 THEN [w1 EXCEPT !.sim.objectives.dropCoverHold = TRUE]
                 ELSE w1
        ELSE w

\* an onIncorrectDrop without the floor at 0
EqOnIncorrectDropUnfloored(w, studentId, deskId) ==
    [w EXCEPT !.sim.mistakes = @ + 1,
              !.sim.accuracy = @ - 10]

EqOnIncorrectDrop(w, studentId, deskId) ==
    [w EXCEPT !.sim.mistakes = @ + 1,
              !.sim.accuracy = Max2(0, @ - 10)]

\* an aftermath phase that sends the students out from under the desks
EqStartAftermathPhaseUnsafe(w) ==
    LET w1 == [w EXCEPT !.sim.isEarthquakeActive = FALSE,
                        !.sim.students = [i \in DOMAIN @ |-> [@[i] EXCEPT !.safe = FALSE]]]
        w2 == HideDragDropPanel(w1)
    IN  ShowInstructions(w2, << Callback("hideInstructions", 0) >>)

EqStartAftermathPhase(w) ==
    LET w1 == [w EXCEPT !.sim.isEarthquakeActive = FALSE]
        w2 == HideDragDropPanel(w1)
    IN  ShowInstructions(w2, << Callback("hideInstructions", 0) >>)

EqShowEvacuationInstructions(w) ==
    ShowInstructions(w, << Callback("startEvacuationPhase", 0) >>)

\* evacuateStudent: the student is marked 3 s after the move starts
EqEvacuateStudent(w, i) == SetTimeout(w, Callback("evacuated", i), 3000)

\* the callback evacuateStudent schedules
EqStudentEvacuated(w, i) ==
    LET w1 == [w EXCEPT !.sim.students[i].evacuated = TRUE,
                        !.sim.evacuatedStudents = @ + 1,
                        !.sim.score = @ + 50]
    IN  IF w1.sim.evacuatedStudents >= EqTotalStudents
        THEN SetTimeout(
                 [w1 EXCEPT !.sim.objectives.evacuateSafely = TRUE,
                            !.sim.objectives.assembleAtSafePoint = TRUE],
                 Callback("complete", 0), 2000)
        ELSE w1

RECURSIVE EqStagger(_, _)
\* students.forEach((student, index) => setTimeout(..., index * 2000))
EqStagger(w, index) ==
    IF index >= EqTotalStudents \/ ~w.sim.listed THEN w
    ELSE EqStagger(SetTimeout(w, Callback("stagger", index), index * 2000), index + 1)

EqInitiateEvacuation(w) == EqStagger(w, 0)

\* the callback initiateEvacuation schedules for one student
EqStaggered(w, i) ==
    IF ~w.sim.students[i].evacuated THEN EqEvacuateStudent(w, i) ELSE w

EqStartEvacuationPhase(w) == EqInitiateEvacuation(HideInstructions(w))

\* a startPhase that records the index before it tests it
EqStartPhasePast(w, phaseIndex) ==
    IF phaseIndex >= Len(EqPhases) THEN EqCompleteSimulation([w EXCEPT !.sim.currentPhase = phaseIndex])
    ELSE
      LET phase == PhaseAt("earthquake", phaseIndex)
          w1 == NotePhaseEntry(
                    [w EXCEPT !.sim.currentPhase = phaseIndex,
                              !.sim.phaseStartTime = w.now], phaseIndex)
          w2 == UpdateProgress(w1, (phaseIndex * 100) \div Len(EqPhases))
          w3 == CASE phase.name = "preparation" -> EqStartPreparationPhase(w2)
                  [] phase.name = "earthquake"  -> EqShowEarthquakeInstructions(w2)
                  [] phase.name = "aftermath"   -> EqStartAftermathPhase(w2)
                  [] phase.name = "evacuation"  -> EqShowEvacuationInstructions(w2)
      IN  SetTimeout(w3, Callback("phase", phaseIndex), phase.duration)

EqStartPhase(w, phaseIndex) ==
    IF phaseIndex >= Len(EqPhases) THEN EqCompleteSimulation(w)
    ELSE
      LET phase == PhaseAt("earthquake", phaseIndex)
          w1 == NotePhaseEntry(
                    [w EXCEPT !.sim.currentPhase = phaseIndex,
                              !.sim.phaseStartTime = w.now], phaseIndex)
          w2 == UpdateProgress(w1, (phaseIndex * 100) \div Len(EqPhases))
          w3 == CASE phase.name = "preparation" -> EqStartPreparationPhase(w2)
                  [] phase.name = "earthquake"  -> EqShowEarthquakeInstructions(w2)
                  [] phase.name = "aftermath"   -> EqStartAftermathPhase(w2)
                  [] phase.name = "evacuation"  -> EqShowEvacuationInstructions(w2)
      IN  SetTimeout(w3, Callback("phase", phaseIndex), phase.duration)

\* the auto-advance callback without its comparison of the phase index
EqPhaseTimerUnguarded(w, phaseIndex) == EqStartPhase(w, phaseIndex + 1)

\* an auto-advance callback that compares with the index of the next phase
EqPhaseTimerLate(w, phaseIndex) ==
    IF w.sim.currentPhase = phaseIndex + 1 THEN EqStartPhase(w, phaseIndex + 1) ELSE w

\* the auto-advance callback startPhase(phaseIndex) schedules
EqPhaseTimer(w, phaseIndex) ==
    IF w.sim.currentPhase = phaseIndex THEN EqStartPhase(w, phaseIndex + 1) ELSE w

EqShowWelcomeInstructions(w) == ShowInstructions(w, << Callback("hideInstructions", 0) >>)

EqStart(w) ==
    LET w1 == [w EXCEPT !.sim.startTime = w.now]
    IN  EqShowWelcomeInstructions(EqStartPhase(w1, 0))

EqOnDeskClick(w) ==
    LET w1 == IF w.sim.currentPhase = 0 THEN EqShowEducationalInfo(w) ELSE w
    IN  [w1 EXCEPT !.sim.score = @ + 10]

EqOnStudentClick(w, i) ==
    IF w.sim.isEarthquakeActive /\ ~w.sim.students[i].safe THEN w
    ELSE IF w.sim.currentPhase = 3 /\ ~w.sim.students[i].evacuated
         THEN EqEvacuateStudent(w, i)
         ELSE w

EqOnExitClick(w) ==
    LET w1 == IF w.sim.currentPhase = 0 THEN EqShowEducationalInfo(w) ELSE w
    IN  [w1 EXCEPT !.sim.score = @ + 10]

\* onPersonInteract for the teacher (students carry their own onInteract)
EqOnTeacherClick(w) == EqShowEducationalInfo(w)

EqOnEmergencyKitInteract(w) ==
    [EqShowEducationalInfo(w) EXCEPT !.sim.objectives.checkInjuries = TRUE,
                                     !.sim.score = @ + 50]

\* reset that leaves the students as they are
EqResetKeepsStudents(w) ==
    LET w1 == [w EXCEPT !.sim.currentPhase = 0,
                        !.sim.score = 0,
                        !.sim.accuracy = 100,
                        !.sim.mistakes = 0,
                        !.sim.evacuatedStudents = 0,
                        !.sim.isEarthquakeActive = FALSE,
                        !.sim.objectives = EqObjectives,
                        !.sim.startTime = w.now]
    IN  EqStartPhase(w1, 0)

EqReset(w) ==
    LET w1 == [w EXCEPT !.sim.currentPhase = 0,
                        !.sim.score = 0,
                        !.sim.accuracy = 100,
                        !.sim.mistakes = 0,
                        !.sim.evacuatedStudents = 0,
                        !.sim.isEarthquakeActive = FALSE,
                        !.sim.objectives = EqObjectives,
                        !.sim.students =
                            IF w.sim.listed
                            THEN [i \in DOMAIN @ |-> [safe |-> FALSE, evacuated |-> FALSE]]
                            ELSE @,
                        !.sim.startTime = w.now]
    IN  EqStartPhase(w1, 0)

\* cleanup: phaseTimer is never set, so no timer is cleared
EqCleanup(w) == [w EXCEPT !.sim.listed = FALSE]

----------------------------------------------------------------------------
(* LandslideSimulation *)
(* The host has no showFeedback and no returnToMenu, and the engine has no *)
(* clearScene: a handler that reaches such a call throws there, and the    *)
(* world it leaves is the one built up to that statement.                  *)

LsTotalResidents == 6
LsTotalWarningSigns == 13
LsSignsNeeded == 5

LsResidentIds == 0..(LsTotalResidents - 1)
LsSignIds == 0..(LsTotalWarningSigns - 1)

LsObjectives ==
    [identifyWarningSigns |-> FALSE, activateWarningSystem |-> FALSE,
     evacuateResidents |-> FALSE, reachSafeZone |-> FALSE, avoidDangerZone |-> FALSE]

\* the host operations a session may call (methods of DisasterSimGame)
HostProvides ==
    {"showInstructions", "hideInstructions", "showDragDropPanel", "hideDragDropPanel",
     "updateProgress", "completeSimulation"}

\* the engine operations a session may call (methods of GameEngine)
EngineProvides ==
    {"createGround", "createBuilding", "createPerson", "createEmergencyKit",
     "createSafeZone", "simulateEarthquake", "simulateLandslide", "simulateFlood",
     "moveObject", "setEnvironment"}

\* createSafeZones: (-40, -30) and (40, -30); residents stand at house.x + 2:
\* the zone on the resident's side of x = 0 is the nearer one
LsHouseX == <<-20, -10, 0, 10, 20, -15>>
LsNearestSafeZone(i) == IF LsHouseX[i + 1] + 2 < 0 THEN 0 ELSE 1

\* constructor, and createHillsideScene as far as it makes session state.
\* personMaterial: whether the object createPerson returns has a material
LsNew(personMaterial) ==
    [type |-> "landslide", currentPhase |-> 0, score |-> 0, startTime |-> 0,
     accuracy |-> 100, mistakes |-> 0, personMaterial |-> personMaterial,
     evacuatedResidents |-> 0, warningSystemActivated |-> FALSE, warningSignsFound |-> 0,
     objectives |-> LsObjectives,
     residents |-> [i \in LsResidentIds |-> [evacuated |-> FALSE]],
     signs |-> [k \in LsSignIds |-> [identified |-> FALSE]],
     safeZones |-> [z \in 0..1 |-> [evacuees |-> 0]]]

\* completeSimulation: the results it hands to showCompletionScreen;
\* timeElapsed = Math.round((endTime - startTime) / 1000)
LsResults(w) ==
    LET objectiveBonus == ObjectiveBonus(w.sim.objectives)
        finalScore == w.sim.score + objectiveBonus
    IN  [score |-> finalScore, accuracy |-> w.sim.accuracy,
         timeElapsed |-> (w.now - w.sim.startTime + 500) \div 1000]

\* showCompletionScreen: neither button reports to the host
LsShowCompletionScreen(w, results) ==
    ShowInstructions(w, << ResultsCallback("restart", results), ResultsCallback("returnToMenu", results) >>)

LsCompleteSimulation(w) ==
    [LsShowCompletionScreen(w, LsResults(w)) EXCEPT !.obs.completions = @ + 1]

LsStartWarningSignsPhase(w) == ShowInstructions(w, << Callback("hideInstructions", 0) >>)

LsStartEarlyWarningPhase(w) == ShowInstructions(w, << Callback("showWarningInterface", 0) >>)

LsShowWarningInterface(w) ==
    ShowDragDropPanel(w,
        << [id |-> ItemId("siren", 0), type |-> "warning"],
           [id |-> ItemId("radio", 0), type |-> "warning"],
           [id |-> ItemId("phone", 0), type |-> "warning"] >>,
        << [id |-> ItemId("community", 0), accepts |-> {"warning"}],
           [id |-> ItemId("authorities", 0), accepts |-> {"warning"}] >>)

\* callback of "Activate Warning"
LsActivateWarningButton(w) == LsShowWarningInterface(HideInstructions(w))

LsStartEvacuationPhase(w) ==
    ShowInstructions(HideDragDropPanel(w), << Callback("hideInstructions", 0) >>)

LsStartLandslideEvent(w) == ShowInstructions(w, << Callback("takeCover", 0) >>)

\* each resident still not evacuated is one mistake; flashDanger reads
\* resident.material.color before the mistake is counted, and throws there
\* when the person object has no material
LsCheckResidentSafety(w) ==
    LET inDanger == Cardinality({i \in LsResidentIds : ~w.sim.residents[i].evacuated})
        mistakes == w.sim.mistakes + inDanger
    IN  IF inDanger = 0
        THEN [w EXCEPT !.sim.objectives.avoidDangerZone = TRUE, !.sim.score = @ + 300]
        ELSE IF ~w.sim.personMaterial THEN w
        ELSE [w EXCEPT !.sim.mistakes = mistakes,
                       !.sim.accuracy = Max2(0, 100 - (mistakes * 10))]

LsSimulateLandslide(w) == LsCheckResidentSafety(w)

\* callback of "Take Cover!"
LsTakeCover(w) == LsSimulateLandslide(HideInstructions(w))

\* throws at game.showFeedback, before the threshold check
LsOnWarningSignClick(w, k) ==
    IF ~w.sim.signs[k].identified
    THEN LET w1 == [w EXCEPT !.sim.signs[k].identified = TRUE,
                             !.sim.warningSignsFound = @ + 1,
                             !.sim.score = @ + 10]
         IN  IF "showFeedback" \in HostProvides
             THEN IF w1.sim.warningSignsFound >= LsSignsNeeded
                  THEN [w1 EXCEPT !.sim.objectives.identifyWarningSigns = TRUE,
                                  !.sim.score = @ + 50]
                  ELSE w1
             ELSE w1
    ELSE w

\* throws at game.showFeedback, after its state changes
LsActivateWarningSystem(w) ==
    IF ~w.sim.warningSystemActivated
    THEN [w EXCEPT !.sim.warningSystemActivated = TRUE,
                   !.sim.objectives.activateWarningSystem = TRUE,
                   !.sim.score = @ + 100]
    ELSE w

\* throws at game.showFeedback, before the all-evacuated check
LsEvacuateResident(w, i) ==
    IF ~w.sim.residents[i].evacuated
    THEN LET w1 == [w EXCEPT !.sim.residents[i].evacuated = TRUE,
                             !.sim.evacuatedResidents = @ + 1,
                             !.sim.safeZones[LsNearestSafeZone(i)].evacuees = @ + 1,
                             !.sim.score = @ + 50]
         IN  IF "showFeedback" \in HostProvides
             THEN IF w1.sim.evacuatedResidents >= LsTotalResidents
                  THEN [w1 EXCEPT !.sim.objectives.evacuateResidents = TRUE,
                                  !.sim.score = @ + 200]
                  ELSE w1
             ELSE w1
    ELSE w

LsStartPhase(w, phaseIndex) ==
    IF phaseIndex >= Len(LsPhases) THEN LsCompleteSimulation(w)
    ELSE
      LET phase == PhaseAt("landslide", phaseIndex)
          w1 == NotePhaseEntry([w EXCEPT !.sim.currentPhase = phaseIndex], phaseIndex)
          w2 == UpdateProgress(w1, (phaseIndex * 100) \div Len(LsPhases))
          w3 == CASE phase.name = "warning_signs"   -> LsStartWarningSignsPhase(w2)
                  [] phase.name = "early_warning"   -> LsStartEarlyWarningPhase(w2)
                  [] phase.name = "evacuation"      -> LsStartEvacuationPhase(w2)
                  [] phase.name = "landslide_event" -> LsStartLandslideEvent(w2)
      IN  SetTimeout(w3, Callback("phase", phaseIndex), phase.duration)

\* the auto-advance callback startPhase(phaseIndex) schedules
LsPhaseTimer(w, phaseIndex) ==
    IF w.sim.currentPhase = phaseIndex THEN LsStartPhase(w, phaseIndex + 1) ELSE w

LsShowWelcomeInstructions(w) == ShowInstructions(w, << Callback("hideInstructions", 0) >>)

LsStart(w) ==
    LET w1 == [w EXCEPT !.sim.startTime = w.now]
    IN  LsShowWelcomeInstructions(LsStartPhase(w1, 0))

\* callback of "Restart Simulation": throws at engine.clearScene, so the
\* scene is not rebuilt and start() is not reached
LsRestart(w) ==
    LET w1 == [w EXCEPT !.sim.currentPhase = 0,
                        !.sim.score = 0,
                        !.sim.accuracy = 100,
                        !.sim.mistakes = 0,
                        !.sim.evacuatedResidents = 0,
                        !.sim.warningSystemActivated = FALSE,
                        !.sim.warningSignsFound = 0,
                        !.sim.objectives = LsObjectives]
    IN  IF "clearScene" \in EngineProvides
        THEN LsStart([w1 EXCEPT !.sim.residents = LsNew(TRUE).residents,
                                !.sim.signs = LsNew(TRUE).signs,
                                !.sim.safeZones = LsNew(TRUE).safeZones])
        ELSE w1

\* callback of "Main Menu": game.returnToMenu does not exist
LsReturnToMenu(w) == w

----------------------------------------------------------------------------
(* FloodSimulation *)
(* Heights are in hundredths of a scene unit, so that the water level moves *)
(* by whole numbers: floodSpeed 0.02 is 2, the receding step 0.01 is 1.     *)

FlTotalResidents == 10
FlTotalSupplies == 8
FlMaxTime == 450
FlInitialWaterLevel == -500
FlMaxWaterLevel == 800
FlFloodSpeed == 2
FlRecedeSpeed == 1

FlResidentIds == 0..(FlTotalResidents - 1)
FlSupplyIds == 0..(FlTotalSupplies - 1)

FlObjectives ==
    [prepareSupplies |-> FALSE, buildBarriers |-> FALSE, evacuateResidents |-> FALSE,
     rescueStranded |-> FALSE, establishShelter |-> FALSE]

\* createCommunityBuildings: six low houses (floodRisk 'high'), four high
FlHouseX == <<-25, -15, -5, 5, 15, 25, -30, -10, 10, 30>>
FlHouseElevation == <<-100, -50, -150, -80, -120, -60, 600, 700, 650, 750>>
FlHighRisk(i) == i < 6

\* createResidents: y = house.position.y - 2.5, the house standing at
\* height / 2 + elevation with height 5 (low) or 6 (high)
FlResidentY(i) == IF FlHighRisk(i) THEN FlHouseElevation[i + 1] ELSE FlHouseElevation[i + 1] + 50

\* createEmergencySupplies: points by supply type, i % 4
FlSupplyPoints(k) == <<30, 25, 40, 20>>[(k % 4) + 1]

\* createEvacuationCenters
FlCapacity == <<6, 8>>

\* the centers stand at x = -20 and x = 20: the one on the resident's side
\* of x = 0 is the nearer one
FlNearerCenter(i) == IF FlHouseX[i + 1] + 3 < 0 THEN 0 ELSE 1

\* constructor, and createCommunityScene as far as it makes session state.
\* nonSwimmers: the residents for whom Math.random() > 0.3 came out false;
\* personMaterial: whether the object createPerson returns has a material
FlNew(nonSwimmers, personMaterial) ==
    [type |-> "flood", currentPhase |-> 0, score |-> 0, startTime |-> 0,
     accuracy |-> 100, mistakes |-> 0,
     waterLevel |-> FlInitialWaterLevel, isFlooding |-> FALSE,
     rescuedResidents |-> 0, suppliesDistributed |-> 0, barriersBuilt |-> 0,
     objectives |-> FlObjectives,
     listed |-> TRUE,
     personMaterial |-> personMaterial,
     residents |-> [i \in FlResidentIds |->
                      [rescued |-> FALSE, inShelter |-> FALSE, needsRescue |-> FALSE,
                       stranded |-> FALSE, canSwim |-> i \notin nonSwimmers]],
     supplies |-> [k \in FlSupplyIds |-> [collected |-> FALSE]],
     centers |-> [c \in 0..1 |-> [occupants |-> 0]],
     boats |-> [b \in 0..2 |-> [passengers |-> 0, available |-> TRUE]]]

FlShowEducationalInfo(w) == ShowInstructions(w, << Callback("hideInstructions", 0) >>)

FlCalculateFinalScore(w) ==
    LET elapsedMs == w.now - w.sim.startTime
        baseScore == w.sim.score
        timeBonus == TimeBonus(FlMaxTime, elapsedMs)
        accuracyBonus == AccuracyBonus(w.sim.accuracy)
        objectiveBonus == ObjectiveBonus(w.sim.objectives)
        rescueBonus == w.sim.rescuedResidents * 25
        supplyBonus == w.sim.suppliesDistributed * 15
    IN  [baseScore |-> baseScore, timeBonus |-> timeBonus,
         accuracyBonus |-> accuracyBonus, objectiveBonus |-> objectiveBonus,
         rescueBonus |-> rescueBonus, supplyBonus |-> supplyBonus,
         total |-> baseScore + timeBonus + accuracyBonus + objectiveBonus
                   + rescueBonus + supplyBonus,
         timeElapsed |-> elapsedMs \div 1000, accuracy |-> w.sim.accuracy]

FlCompleteSimulation(w) ==
    LET results == FlCalculateFinalScore(w)
        w1 == UpdateProgress(w, 100)
        w2 == ShowInstructions(w1, << ResultsCallback("viewResults", results) >>)
    IN  [w2 EXCEPT !.obs.completions = @ + 1]

\* callback of "View Results"
FlViewResults(w, results) ==
    GameCompleteSimulation(HideInstructions(w),
        [disaster |-> "flood", score |-> results.total,
         timeBonus |-> results.timeBonus, accuracy |-> results.accuracy])

FlShowPreparationInterface(w) ==
    ShowDragDropPanel(w,
        << [id |-> ItemId("water_supply", 0), type |-> "supply"],
           [id |-> ItemId("food_kit", 0), type |-> "supply"],
           [id |-> ItemId("first_aid", 0), type |-> "supply"],
           [id |-> ItemId("sandbags", 0), type |-> "barrier"],
           [id |-> ItemId("plastic_sheeting", 0), type |-> "barrier"] >>,
        << [id |-> ItemId("house_prep", 0), accepts |-> {"supply"}],
           [id |-> ItemId("barrier_build", 0), accepts |-> {"barrier"}] >>)

FlStartPreparationPhase(w) ==
    FlShowPreparationInterface(ShowInstructions(w, << Callback("hideInstructions", 0) >>))

FlShowEarlyFloodInstructions(w) == ShowInstructions(w, << Callback("startFloodPhase", 0) >>)

\* the residents checkResidentsInDanger finds under water and not rescued
FlInDanger(s) ==
    IF s.listed
    THEN {i \in FlResidentIds : FlResidentY(i) < s.waterLevel + 100 /\ ~s.residents[i].rescued}
    ELSE {}

\* checkResidentsInDanger reads resident.material.children[0]: it throws at
\* the first resident in danger when the person object has no material
FlDangerThrows(s) == FlInDanger(s) # {} /\ ~s.personMaterial

\* every non-swimmer in danger costs 20 points and 5 accuracy, at each call
FlCheckResidentsInDanger(w) ==
    LET inDanger == FlInDanger(w.sim)
        critical == Cardinality({i \in inDanger : ~w.sim.residents[i].canSwim})
    IN  [w EXCEPT !.sim.residents =
                      [i \in FlResidentIds |->
                          IF i \in inDanger THEN [@[i] EXCEPT !.needsRescue = TRUE] ELSE @[i]],
                  !.sim.score = @ - (20 * critical),
                  !.sim.accuracy = @ - (5 * critical)]

\* raiseWater, the frame callback of startFloodAnimation
FlRaiseWater(w) ==
    IF w.sim.isFlooding /\ w.sim.waterLevel < FlMaxWaterLevel
    THEN LET w1 == [w EXCEPT !.sim.waterLevel = @ + FlFloodSpeed]
         IN  IF FlDangerThrows(w1.sim) THEN w1
             ELSE RequestAnimationFrame(FlCheckResidentsInDanger(w1), Callback("raiseWater", 0))
    ELSE w

\* whether the call of raiseWater in startFloodAnimation throws
FlRaiseWaterThrows(w) ==
    /\ w.sim.isFlooding
    /\ w.sim.waterLevel < FlMaxWaterLevel
    /\ FlDangerThrows([w.sim EXCEPT !.waterLevel = @ + FlFloodSpeed])

FlStartFloodAnimation(w) == FlRaiseWater(w)

RECURSIVE FlStagger(_, _)
\* residents.forEach((resident, index) => ... setTimeout(..., index * 2000))
FlStagger(w, index) ==
    IF index >= FlTotalResidents \/ ~w.sim.listed THEN w
    ELSE IF FlHighRisk(index)
         THEN FlStagger(SetTimeout(w, Callback("evacuate", index), index * 2000), index + 1)
         ELSE FlStagger(w, index + 1)

FlInitiateEvacuation(w) == FlStagger(w, 0)

\* the nearest center that still has room, or -1
FlFindNearestEvacuationCenter(w, i) ==
    LET near == FlNearerCenter(i)
        far == 1 - near
    IN  IF ~w.sim.listed THEN -1
        ELSE IF w.sim.centers[near].occupants < FlCapacity[near + 1] THEN near
        ELSE IF w.sim.centers[far].occupants < FlCapacity[far + 1] THEN far
        ELSE -1

\* the resident is marked 3 s after the move starts; the callback keeps the
\* center chosen now
FlEvacuateResident(w, i) ==
    LET nearestCenter == FlFindNearestEvacuationCenter(w, i)
    IN  IF nearestCenter >= 0
        THEN SetTimeout(w, Callback("evacuated", (2 * i) + nearestCenter), 3000)
        ELSE w

\* the callback evacuateResident schedules
FlResidentEvacuated(w, i, c) ==
    LET w1 == [w EXCEPT !.sim.residents[i].rescued = TRUE,
                        !.sim.residents[i].inShelter = TRUE,
                        !.sim.centers[c].occupants = @ + 1,
                        !.sim.rescuedResidents = @ + 1,
                        !.sim.score = @ + 50]
    IN  \* rescuedResidents >= totalResidents * 0.7
        IF 10 * w1.sim.rescuedResidents >= 7 * FlTotalResidents
        THEN [w1 EXCEPT !.sim.objectives.evacuateResidents = TRUE]
        ELSE w1

\* callback of "Start Evacuation"; the panel stays open
FlStartFloodPhase(w) ==
    LET w1 == HideDragDropPanel(w)
        w2 == [w1 EXCEPT !.sim.isFlooding = TRUE]
    IN  IF FlRaiseWaterThrows(w2)
        THEN [w2 EXCEPT !.sim.waterLevel = @ + FlFloodSpeed]
        ELSE FlInitiateEvacuation(FlStartFloodAnimation(w2))

FlShowRescueInstructions(w) == ShowInstructions(w, << Callback("startRescuePhase", 0) >>)

\* the residents to rescue, as items of the boat panel
FlRescueItems(s) ==
    LET RECURSIVE Items(_)
        Items(i) ==
            IF i >= FlTotalResidents \/ ~s.listed THEN <<>>
            ELSE (IF s.residents[i].needsRescue /\ ~s.residents[i].rescued
                  THEN << [id |-> ItemId("resident", i), type |-> "rescue"] >>
                  ELSE <<>>) \o Items(i + 1)
    IN  Items(0)

FlShowBoatInterface(w) ==
    LET rescueItems == FlRescueItems(w.sim)
        boatZones == IF w.sim.listed
                     THEN [b \in 1..3 |-> [id |-> ItemId("boat", b - 1), accepts |-> {"rescue"}]]
                     ELSE <<>>
    IN  IF Len(rescueItems) > 0 THEN ShowDragDropPanel(w, rescueItems, boatZones) ELSE w

FlEnableBoatRescue(w) ==
    FlShowBoatInterface(
        IF w.sim.listed
        THEN [w EXCEPT !.sim.boats = [b \in DOMAIN @ |-> [@[b] EXCEPT !.available = TRUE]]]
        ELSE w)

FlIdentifyStrandedResidents(w) ==
    IF ~w.sim.listed THEN w ELSE
    [w EXCEPT !.sim.residents =
        [i \in FlResidentIds |->
            IF ~@[i].rescued /\ FlResidentY(i) < w.sim.waterLevel + 200
            THEN [@[i] EXCEPT !.stranded = TRUE, !.needsRescue = TRUE]
            ELSE @[i]]]

\* callback of "Deploy Rescue Teams"
FlStartRescuePhase(w) == FlIdentifyStrandedResidents(FlEnableBoatRescue(HideInstructions(w)))

RECURSIVE FlDistribute(_, _)
\* emergencySupplies.forEach((supply, index) => ... setTimeout(..., index * 1000))
FlDistribute(w, index) ==
    IF index >= FlTotalSupplies \/ ~w.sim.listed THEN w
    ELSE IF ~w.sim.supplies[index].collected
         THEN FlDistribute(SetTimeout(w, Callback("supplyMove", index), index * 1000), index + 1)
         ELSE FlDistribute(w, index + 1)

FlDistributeSuppliesToShelters(w) == FlDistribute(w, 0)

\* the first callback of distributeSuppliesToShelters: the supply is marked
\* 2 s after the move starts
\* the center is evacuationCenters[index % evacuationCenters.length]: with
\* the array emptied it is undefined, and center.position throws
FlSupplyMove(w, k) ==
    IF w.sim.listed THEN SetTimeout(w, Callback("supplyDone", k), 2000) ELSE w

\* the second callback of distributeSuppliesToShelters
FlSupplyDone(w, k) ==
    LET w1 == [w EXCEPT !.sim.supplies[k].collected = TRUE,
                        !.sim.suppliesDistributed = @ + 1,
                        !.sim.score = @ + FlSupplyPoints(k)]
    IN  \* suppliesDistributed >= emergencySupplies.length * 0.75
        IF 4 * w1.sim.suppliesDistributed >= 3 * (IF w.sim.listed THEN FlTotalSupplies ELSE 0)
        THEN [w1 EXCEPT !.sim.objectives.prepareSupplies = TRUE]
        ELSE w1

FlSetupShelterOperations(w) ==
    [FlDistributeSuppliesToShelters(w) EXCEPT !.sim.objectives.establishShelter = TRUE,
                                              !.sim.score = @ + 100]

\* recedeWater, the frame callback of startWaterReceding
FlRecedeWater(w) ==
    IF w.sim.waterLevel > FlInitialWaterLevel
    THEN RequestAnimationFrame([w EXCEPT !.sim.waterLevel = @ - FlRecedeSpeed],
                               Callback("recedeWater", 0))
    ELSE [w EXCEPT !.sim.isFlooding = FALSE]

FlStartWaterReceding(w) == FlRecedeWater(w)

FlStartRecoveryPhase(w) ==
    FlStartWaterReceding(FlSetupShelterOperations(
        ShowInstructions(w, << Callback("hideInstructions", 0) >>)))

FlStartPhase(w, phaseIndex) ==
    IF phaseIndex >= Len(FlPhases) THEN FlCompleteSimulation(w)
    ELSE
      LET phase == PhaseAt("flood", phaseIndex)
          w1 == NotePhaseEntry([w EXCEPT !.sim.currentPhase = phaseIndex], phaseIndex)
          w2 == UpdateProgress(w1, (phaseIndex * 100) \div Len(FlPhases))
          w3 == CASE phase.name = "preparation" -> FlStartPreparationPhase(w2)
                  [] phase.name = "early_flood" -> FlShowEarlyFloodInstructions(w2)
                  [] phase.name = "rescue_ops"  -> FlShowRescueInstructions(w2)
                  [] phase.name = "recovery"    -> FlStartRecoveryPhase(w2)
      IN  SetTimeout(w3, Callback("phase", phaseIndex), phase.duration)

\* the auto-advance callback startPhase(phaseIndex) schedules
FlPhaseTimer(w, phaseIndex) ==
    IF w.sim.currentPhase = phaseIndex THEN FlStartPhase(w, phaseIndex + 1) ELSE w

FlShowWelcomeInstructions(w) == ShowInstructions(w, << Callback("hideInstructions", 0) >>)

FlStart(w) ==
    LET w1 == [w EXCEPT !.sim.startTime = w.now]
    IN  FlShowWelcomeInstructions(FlStartPhase(w1, 0))

\* onPersonInteract
FlOnResidentClick(w, i) ==
    IF w.sim.residents[i].needsRescue /\ ~w.sim.residents[i].rescued THEN w
    ELSE IF w.sim.residents[i].inShelter THEN FlShowEducationalInfo(w)
    ELSE FlEvacuateResident(w, i)

\* onEmergencyKitInteract
FlOnSupplyClick(w, k) ==
    IF ~w.sim.supplies[k].collected
    THEN FlShowEducationalInfo(
             [w EXCEPT !.sim.supplies[k].collected = TRUE,
                       !.sim.suppliesDistributed = @ + 1,
                       !.sim.score = @ + FlSupplyPoints(k)])
    ELSE w

FlOnEvacuationCenterClick(w) == FlShowEducationalInfo(w)

FlOnBoatClick(w, b) == IF w.sim.boats[b].available THEN FlShowEducationalInfo(w) ELSE w

FlOnBuildingInteract(w) == FlShowEducationalInfo(w)

FlReset(w) ==
    LET w1 == [w EXCEPT !.sim.currentPhase = 0,
                        !.sim.score = 0,
                        !.sim.accuracy = 100,
                        !.sim.mistakes = 0,
                        !.sim.rescuedResidents = 0,
                        !.sim.suppliesDistributed = 0,
                        !.sim.barriersBuilt = 0,
                        !.sim.isFlooding = FALSE,
                        !.sim.waterLevel = FlInitialWaterLevel,
                        !.sim.objectives = FlObjectives]
        w2 == IF ~w.sim.listed THEN w1 ELSE
              [w1 EXCEPT !.sim.residents =
                            [i \in FlResidentIds |->
                                [@[i] EXCEPT !.rescued = FALSE, !.inShelter = FALSE,
                                             !.needsRescue = FALSE, !.stranded = FALSE]],
                         !.sim.supplies = [k \in FlSupplyIds |-> [collected |-> FALSE]],
                         !.sim.centers = [c \in 0..1 |-> [occupants |-> 0]],
                         !.sim.boats = [b \in 0..2 |-> [passengers |-> 0, available |-> TRUE]]]
    IN  FlStartPhase([w2 EXCEPT !.sim.startTime = w.now], 0)

\* cleanup empties the arrays of residents, houses, supplies, centers and
\* boats
FlCleanup(w) == [w EXCEPT !.sim.listed = FALSE, !.sim.isFlooding = FALSE]

----------------------------------------------------------------------------
(* The 2D mini-game of game-engine.js: a script of its own, with its state
   in globals.  Vertical positions and speeds of the player are kept in
   half pixels, because GRAVITY is half a pixel per frame *)

CANVAS_WIDTH == 800
CANVAS_HEIGHT == 600
PLAYER_WIDTH == 50
PLAYER_HEIGHT == 50
PLAYER_SPEED == 5
JUMP_SPEED == 15
\* twice GRAVITY = 0.5: half a pixel per frame, in half pixels
GRAVITY_X2 == 1
DEBRIS_SPEED == 3
DEBRIS_SIZE == 50
TIME_LIMIT == 10000
MAX_LIVES == 3
TABLE_WIDTH == 100
TABLE_HEIGHT == 50

\* the globals before initGame has run; gameState and lives are undefined
\* ("none", 0), the menu is shown.  games, spawned and keyEvents are
\* observers
MiniLoaded ==
    [gameState |-> "none", startTime |-> 0, lives |-> 0, score |-> 0,
     player |-> [x |-> 0, y |-> 0, vy |-> 0, onGround |-> FALSE],
     debris |-> <<>>, keys |-> {}, menu |-> TRUE, loop |-> 0,
     games |-> 0, spawned |-> 0, keyEvents |-> 0]

MiniTable ==
    [x |-> (CANVAS_WIDTH - TABLE_WIDTH) - 50, y |-> CANVAS_HEIGHT - TABLE_HEIGHT,
     width |-> TABLE_WIDTH, height |-> TABLE_HEIGHT]

\* the rectangle test of update, the player's y in half pixels
MiniOverlaps(player, r) ==
    /\ player.x < r.x + r.width
    /\ player.x + PLAYER_WIDTH > r.x
    /\ player.y < 2 * (r.y + r.height)
    /\ player.y + (2 * PLAYER_HEIGHT) > 2 * r.y

MiniRect(obstacle) ==
    [x |-> obstacle.x, y |-> obstacle.y, width |-> DEBRIS_SIZE, height |-> DEBRIS_SIZE]

RECURSIVE MiniFilterDebris(_, _, _)
\* debris = debris.filter(...): every piece falls; one that left the canvas
\* is dropped; one that touches the player costs a life and is dropped, and
\* the filter goes on to the next piece.  acc is [debris, lives, gameState]
MiniFilterDebris(rest, player, acc) ==
    IF rest = <<>> THEN acc
    ELSE LET obstacle == [Head(rest) EXCEPT !.y = @ + DEBRIS_SPEED]
         IN  IF obstacle.y > CANVAS_HEIGHT
             THEN MiniFilterDebris(Tail(rest), player, acc)
             ELSE IF MiniOverlaps(player, MiniRect(obstacle))
             THEN LET lives == acc.lives - 1
                  IN  MiniFilterDebris(Tail(rest), player,
                          [acc EXCEPT !.lives = lives,
                                      !.gameState = IF lives <= 0 THEN "lose" ELSE @])
             ELSE MiniFilterDebris(Tail(rest), player,
                      [acc EXCEPT !.debris = Append(@, obstacle)])

\* the player's part of update: keys, gravity, ground, boundaries
MiniMovePlayer(player, keys) ==
    LET x1 == IF "ArrowLeft" \in keys \/ "a" \in keys THEN player.x - PLAYER_SPEED ELSE player.x
        x2 == IF "ArrowRight" \in keys \/ "d" \in keys THEN x1 + PLAYER_SPEED ELSE x1
        jump == ({"ArrowUp", "w", " "} \cap keys # {}) /\ player.onGround
        vy == (IF jump THEN -(2 * JUMP_SPEED) ELSE player.vy) + GRAVITY_X2
        y == player.y + vy
        landed == y >= 2 * (CANVAS_HEIGHT - PLAYER_HEIGHT)
        x3 == IF x2 < 0 THEN 0 ELSE x2
    IN  [x |-> IF x3 > CANVAS_WIDTH - PLAYER_WIDTH THEN CANVAS_WIDTH - PLAYER_WIDTH ELSE x3,
         y |-> IF landed THEN 2 * (CANVAS_HEIGHT - PLAYER_HEIGHT) ELSE y,
         vy |-> IF landed THEN 0 ELSE vy,
         onGround |-> IF landed THEN TRUE ELSE IF jump THEN FALSE ELSE player.onGround]

\* an update that does not look at the clock
MiniUpdateNoTimeout(m, t, spawn) ==
    LET player == MiniMovePlayer(m.player, m.keys)
        fallen == IF spawn = <<>> THEN m.debris
                  ELSE Append(m.debris, [x |-> spawn[1], y |-> -DEBRIS_SIZE])
        hit == MiniFilterDebris(fallen, player,
                   [debris |-> <<>>, lives |-> m.lives, gameState |-> m.gameState])
    IN  [m EXCEPT !.player = player,
                  !.debris = hit.debris,
                  !.lives = hit.lives,
                  !.gameState = IF MiniOverlaps(player, MiniTable) THEN "win"
                                ELSE hit.gameState,
                  !.spawned = IF spawn = <<>> THEN @ ELSE @ + 1,
                  !.score = @ + 1]

\* update(), at Date.now() = t.  spawn is what Math.random decided: <<>> for
\* no new piece, <<x>> for a piece at x.  The shake offsets only move the
\* drawing
MiniUpdate(m, t, spawn) ==
    LET elapsed == t - m.startTime
        player == MiniMovePlayer(m.player, m.keys)
        fallen == IF spawn = <<>> THEN m.debris
                  ELSE Append(m.debris, [x |-> spawn[1], y |-> -DEBRIS_SIZE])
        hit == MiniFilterDebris(fallen, player,
                   [debris |-> <<>>, lives |-> m.lives, gameState |-> m.gameState])
        atTable == MiniOverlaps(player, MiniTable)
    IN  [m EXCEPT !.player = player,
                  !.debris = hit.debris,
                  !.lives = hit.lives,
                  !.gameState = IF elapsed >= TIME_LIMIT THEN "lose"
                                ELSE IF atTable THEN "win"
                                ELSE hit.gameState,
                  !.spawned = IF spawn = <<>> THEN @ ELSE @ + 1,
                  !.score = @ + 1]

\* showResult(): the menu is shown again
MiniShowResult(m) == [m EXCEPT !.menu = TRUE]

\* gameLoop(): the result once the game is over, else update, draw and the
\* request of the next frame
MiniGameLoop(m, t, spawn) ==
    IF m.gameState # "playing" THEN MiniShowResult(m)
    ELSE [MiniUpdate(m, t, spawn) EXCEPT !.loop = @ + 1]

\* initGame(), the click handler of the start button; it ends with the
\* first gameLoop()
MiniInitGame(m, t, spawn) ==
    MiniGameLoop(
        [m EXCEPT !.gameState = "playing",
                  !.startTime = t,
                  !.lives = MAX_LIVES,
                  !.score = 0,
                  !.debris = <<>>,
                  !.keys = {},
                  !.player = [x |-> 100, y |-> 2 * (CANVAS_HEIGHT - PLAYER_HEIGHT),
                              vy |-> 0, onGround |-> TRUE],
                  !.menu = FALSE,
                  !.spawned = 0,
                  !.games = @ + 1],
        t, spawn)

\* the keydown and keyup listeners initGame adds
MiniKeyDown(m, key) == IF m.games = 0 THEN m ELSE [m EXCEPT !.keys = @ \cup {key}]
MiniKeyUp(m, key) == IF m.games = 0 THEN m ELSE [m EXCEPT !.keys = @ \ {key}]

----------------------------------------------------------------------------
(* The browser: tasks of the event loop *)

\* what a scheduled callback or a button runs, by the session that made it
RunCallback(w, cb) ==
    IF cb.k = "hideInstructions" THEN HideInstructions(w)
    ELSE IF w.sim.type = "earthquake" THEN
        CASE cb.k = "phase"                -> EqPhaseTimer(w, cb.a)
          [] cb.k = "startEarthquakePhase" -> EqStartEarthquakePhase(w)
          [] cb.k = "startEvacuationPhase" -> EqStartEvacuationPhase(w)
          [] cb.k = "stagger"              -> EqStaggered(w, cb.a)
          [] cb.k = "evacuated"            -> EqStudentEvacuated(w, cb.a)
          [] cb.k = "complete"             -> EqCompleteSimulation(w)
          [] cb.k = "viewResults"          -> EqViewResults(w, cb.r[1])
    ELSE IF w.sim.type = "landslide" THEN
        CASE cb.k = "phase"                -> LsPhaseTimer(w, cb.a)
          [] cb.k = "showWarningInterface" -> LsActivateWarningButton(w)
          [] cb.k = "takeCover"            -> LsTakeCover(w)
          [] cb.k = "restart"              -> LsRestart(w)
          [] cb.k = "returnToMenu"         -> LsReturnToMenu(w)
    ELSE IF w.sim.type = "flood" THEN
        CASE cb.k = "phase"                -> FlPhaseTimer(w, cb.a)
          [] cb.k = "startFloodPhase"      -> FlStartFloodPhase(w)
          [] cb.k = "startRescuePhase"     -> FlStartRescuePhase(w)
          [] cb.k = "evacuate"             -> FlEvacuateResident(w, cb.a)
          [] cb.k = "evacuated"            -> FlResidentEvacuated(w, cb.a \div 2, cb.a % 2)
          [] cb.k = "supplyMove"           -> FlSupplyMove(w, cb.a)
          [] cb.k = "supplyDone"           -> FlSupplyDone(w, cb.a)
          [] cb.k = "raiseWater"           -> FlRaiseWater(w)
          [] cb.k = "recedeWater"          -> FlRecedeWater(w)
          [] cb.k = "viewResults"          -> FlViewResults(w, cb.r[1])
    ELSE w

\* the timers whose time has come, and the one the event loop runs next:
\* the earliest due, the earliest set among equals
DueTimers == {i \in 1..Len(timers) : timers[i].due <= now}
NextTimer ==
    CHOOSE i \in DueTimers :
        \A j \in DueTimers :
            timers[i].due < timers[j].due \/ (timers[i].due = timers[j].due /\ i <= j)

\* the time of the next display frame after t, the frames being
\* 1000 / FrameRate ms apart
NextFrameTime(t) == (((((t * FrameRate) \div 1000) + 1) * 1000) + (FrameRate - 1)) \div FrameRate

\* the next instant at which something is scheduled: a timer, a frame when
\* callbacks wait for one, or a multiple of Granule
NextInstant ==
    Min({((now \div Granule) + 1) * Granule}
        \cup {timers[i].due : i \in 1..Len(timers)}
        \cup (IF frames # <<>> THEN {NextFrameTime(now)} ELSE {}))

\* a gesture counts against the player's budget when it changes anything;
\* the player acts between tasks, at the multiples of Granule
Gesture(w) == IF w = World THEN w ELSE [w EXCEPT !.obs.inputs = @ + 1]
\* the methods the host calls on a session if it has them (onCorrectDrop,
\* onIncorrectDrop) or without asking (reset, cleanup), by session class
SessionProvides(type) ==
    CASE type = "earthquake" -> {"onCorrectDrop", "onIncorrectDrop", "reset", "cleanup"}
      [] type = "landslide"  -> {}
      [] type = "flood"      -> {"reset", "cleanup"}
      [] OTHER               -> {}

AtRest ==
    /\ game.simulationModule
    /\ DueTimers = {}
    /\ now % Granule = 0
CanAct == AtRest /\ obs.inputs < MaxInputs
CanReset == AtRest /\ obs.resets < MaxResets

\* the object the player picks among those of one kind: the first of them
First(S) == IF S = {} THEN {} ELSE {Min(S)}
\* the zones the player drops on: the first and the last of the panel
FirstAndLast(S) == First(S) \cup {x \in S : \A y \in S : y <= x}

\* the outcomes of scene creation the session logic depends on: the
\* residents that cannot swim, and whether a person object has a material
SceneOutcomes(d) ==
    IF d = "flood" THEN {<<{}, FALSE>>, <<{2}, FALSE>>, <<{}, TRUE>>, <<{2}, TRUE>>}
    ELSE IF d = "landslide" THEN {<<{}, FALSE>>, <<{}, TRUE>>}
    ELSE {<<{}, FALSE>>}

\* DisasterSimGame.initializeSimulation: the engine first, then the session
\* of the type, started; a type that is none of the three throws
InitializeSimulation(w, disasterType, outcome) ==
    LET w0 == [w EXCEPT !.game.gameEngine = TRUE]
    IN  IF disasterType \notin Disasters
        THEN [threw |-> TRUE, w |-> w0]
        ELSE LET module == CASE disasterType = "earthquake" -> EqNew
                              [] disasterType = "landslide"  -> LsNew(outcome[2])
                              [] disasterType = "flood"      -> FlNew(outcome[1], outcome[2])
                 w1 == [w0 EXCEPT !.game.simulationModule = TRUE, !.sim = module]
             IN  [threw |-> FALSE,
                  w |-> CASE disasterType = "earthquake" -> EqStart(w1)
                          [] disasterType = "landslide"  -> LsStart(w1)
                          [] disasterType = "flood"      -> FlStart(w1)]

\* startSimulation that names the current simulation before it is loaded
GameStartSimulationEager(w, disasterType, outcome) ==
    LET w0 == [w EXCEPT !.game.currentSimulation = disasterType]
        r == InitializeSimulation(w0, disasterType, outcome)
    IN  IF r.threw THEN [r.w EXCEPT !.obs.alerts = @ + 1] ELSE r.w

\* DisasterSimGame.startSimulation: currentSimulation is set once the
\* session is loaded; a failure is caught and answered with the alert
GameStartSimulation(w, disasterType, outcome) ==
    LET r == InitializeSimulation(w, disasterType, outcome)
    IN  IF r.threw
        THEN [r.w EXCEPT !.obs.alerts = @ + 1]
        ELSE [r.w EXCEPT !.game.currentSimulation = disasterType]

\* the player picks one of the three disaster cards
StartSimulation ==
    \E d \in Disasters :
      \E outcome \in SceneOutcomes(d) :
        /\ game.currentSimulation = "none"
        /\ ~game.simulationModule
        /\ sim = NoSim
        /\ Becomes(GameStartSimulation([World EXCEPT !.obs.start = Append(@, d)],
                                       d, outcome))

\* a click on a button of the instructions panel
PressButton ==
    \E i \in 1..Len(ui.instrActions) :
        /\ sim.type # "none"
        /\ ui.instrVisible
        /\ DueTimers = {}
        /\ LET cb == ui.instrActions[i]
               w1 == RunCallback(World, cb)
               w2 == IF cb.k \in {"viewResults", "returnToMenu"}
                     THEN [w1 EXCEPT !.obs.acked = TRUE] ELSE w1
           IN  CASE cb.k = "restart" ->
                       /\ CanReset
                       /\ Becomes([w2 EXCEPT !.obs.resets = @ + 1])
                 [] cb.k = "startFloodPhase" ->
                       /\ CanAct
                       /\ Becomes(Gesture(w2))
                 [] OTHER -> Becomes(w2)

\* what a drop can carry: the id of an item still in the panel (its index),
\* or any other text, such as the id of a drop zone (0)
DragIds == First(DOMAIN ui.ddItems) \cup {0}

\* the drop handler showDragDropPanel installs on a zone
OnDrop(w, itemIndex, zoneIndex) ==
    LET zone == w.ui.ddZones[zoneIndex]
        \* document.querySelector(`[data-id="${draggedId}"]`): an item, or
        \* (itemIndex = 0) the zone element itself, which has no data-type
        draggedId == IF itemIndex = 0 THEN zone.id ELSE w.ui.ddItems[itemIndex].id
        isCorrect == itemIndex # 0 /\ w.ui.ddItems[itemIndex].type \in zone.accepts
        provided == IF w.game.simulationModule THEN SessionProvides(w.sim.type) ELSE {}
        callback == IF isCorrect THEN "onCorrectDrop" ELSE "onIncorrectDrop"
        \* observer: the drop, and the session callback it led to
        w0 == [w EXCEPT !.obs.drop =
                  << [item |-> itemIndex,
                      type |-> IF itemIndex = 0 THEN "" ELSE w.ui.ddItems[itemIndex].type,
                      accepts |-> zone.accepts,
                      called |-> IF callback \in provided THEN callback ELSE "none"] >>]
    IN  IF isCorrect
        THEN LET w1 == [w0 EXCEPT !.ui.ddItems = RemoveAt(@, itemIndex)]
             IN  IF "onCorrectDrop" \in provided
                 THEN EqOnCorrectDrop(w1, draggedId, zone.id)
                 ELSE w1
        ELSE IF "onIncorrectDrop" \in provided
             THEN EqOnIncorrectDrop(w0, draggedId, zone.id)
             ELSE w0

Drop ==
    \E itemIndex \in DragIds, zoneIndex \in FirstAndLast(DOMAIN ui.ddZones) :
        /\ CanAct
        /\ ui.ddVisible
        /\ Becomes(Gesture(OnDrop(World, itemIndex, zoneIndex)))

\* GameEngine.triggerInteraction: the onInteract of the object clicked
ClickTargets ==
    CASE sim.type = "earthquake" ->
            {<<"desk", 0>>, <<"exit", 0>>, <<"teacher", 0>>, <<"kit", 0>>}
            \cup {<<"student", i>> :
                    i \in First({i \in EqStudentIds : ~sim.students[i].evacuated})}
      [] sim.type = "landslide" ->
            {<<"warningSystem", 0>>}
            \cup {<<"sign", k>> : k \in First({k \in LsSignIds : ~sim.signs[k].identified})}
            \cup {<<"resident", i>> :
                    i \in First({i \in LsResidentIds : ~sim.residents[i].evacuated})}
      [] sim.type = "flood" ->
            {<<"center", 0>>, <<"boat", 0>>, <<"building", 0>>}
            \cup {<<"supply", k>> : k \in First({k \in FlSupplyIds : ~sim.supplies[k].collected})}
            \cup {<<"resident", i>> :
                    i \in First({i \in FlResidentIds : ~sim.residents[i].rescued})}
      [] OTHER -> {}

OnClick(w, target) ==
    IF w.sim.type = "earthquake" THEN
        CASE target[1] = "desk"    -> EqOnDeskClick(w)
          [] target[1] = "exit"    -> EqOnExitClick(w)
          [] target[1] = "teacher" -> EqOnTeacherClick(w)
          [] target[1] = "kit"     -> EqOnEmergencyKitInteract(w)
          [] target[1] = "student" -> EqOnStudentClick(w, target[2])
    ELSE IF w.sim.type = "landslide" THEN
        CASE target[1] = "warningSystem" -> LsActivateWarningSystem(w)
          [] target[1] = "sign"          -> LsOnWarningSignClick(w, target[2])
          [] target[1] = "resident"      -> LsEvacuateResident(w, target[2])
    ELSE IF w.sim.type = "flood" THEN
        CASE target[1] = "center"   -> FlOnEvacuationCenterClick(w)
          [] target[1] = "boat"     -> FlOnBoatClick(w, target[2])
          [] target[1] = "building" -> FlOnBuildingInteract(w)
          [] target[1] = "supply"   -> FlOnSupplyClick(w, target[2])
          [] target[1] = "resident" -> FlOnResidentClick(w, target[2])
    ELSE w

\* the engine, once cleaned up, has no interactive objects left to hit
Click ==
    \E target \in ClickTargets :
        /\ CanAct
        /\ game.gameEngine
        /\ Becomes(Gesture(OnClick(World, target)))

\* DisasterSimGame.resetSimulation: simulationModule.reset(); a landslide
\* session has no reset, and the call throws
ResetSimulation ==
    /\ AtRest
    /\ obs.hostResets < MaxResets
    /\ LET w0 == [World EXCEPT !.obs.hostResets = @ + 1]
       IN  IF "reset" \in SessionProvides(sim.type)
           THEN /\ obs.resets < MaxResets
                /\ LET w1 == IF sim.type = "earthquake" THEN EqReset(w0) ELSE FlReset(w0)
                   IN  Becomes([w1 EXCEPT !.obs.resets = @ + 1])
           ELSE Becomes(w0)

\* DisasterSimGame.exitSimulation: gameEngine.cleanup(), then
\* simulationModule.cleanup(), which a landslide session does not have: the
\* call throws and the rest of exitSimulation is not reached
ExitSimulation ==
    /\ CanAct
    /\ LET w0 == [World EXCEPT !.obs.exits = @ + 1]
           w1 == [w0 EXCEPT !.game.gameEngine = FALSE]
           w2 == IF "cleanup" \in SessionProvides(sim.type)
                 THEN LET w3 == IF sim.type = "earthquake" THEN EqCleanup(w1)
                                ELSE FlCleanup(w1)
                          w4 == [w3 EXCEPT !.game.simulationModule = FALSE,
                                           !.game.currentSimulation = "none"]
                      IN  HideDragDropPanel(HideInstructions(w4))
                 ELSE w1
       IN  Becomes(Gesture(w2))

\* the event loop runs a timer whose time has come
FireTimer ==
    /\ DueTimers # {}
    /\ LET i == NextTimer
           w0 == [World EXCEPT !.timers = RemoveAt(@, i)]
       IN  Becomes(RunCallback(w0, timers[i].cb))

RECURSIVE RunCallbacks(_, _)
RunCallbacks(w, cbs) ==
    IF cbs = <<>> THEN w ELSE RunCallbacks(RunCallback(w, Head(cbs)), Tail(cbs))

\* the display shows its next frame: the callbacks requested so far run,
\* and what they request waits for the frame after
Frame ==
    /\ frames # <<>>
    /\ DueTimers = {}
    /\ now < Horizon(sim.type)
    /\ NextInstant = NextFrameTime(now)
    /\ Becomes(RunCallbacks([World EXCEPT !.frames = <<>>, !.now = NextFrameTime(now)], frames))

\* time passes, to the next timer or to the next multiple of Granule
Advance ==
    /\ sim.type # "none"
    /\ DueTimers = {}
    /\ now < Horizon(sim.type)
    /\ frames # <<>> => NextInstant < NextFrameTime(now)
    /\ now' = NextInstant
    /\ UNCHANGED <<game, sim, ui, timers, frames, obs, mini>>

Init ==
    /\ game = InitGame
    /\ sim = NoSim
    /\ ui = InitUi
    /\ timers = <<>>
    /\ frames = <<>>
    /\ now = 0
    /\ obs = InitObs
    /\ mini = MiniLoaded

Next ==
    \/ StartSimulation
    \/ PressButton
    \/ Drop
    \/ Click
    \/ ResetSimulation
    \/ ExitSimulation
    \/ FireTimer
    \/ Frame
    \/ Advance

Spec == Init /\ [][Next]_vars

\* a session left to itself: the player starts it and then only watches.
\* The event loop runs every timer whose time has come, and time does not
\* stop; no frame callback is requested, the animations being started from
\* buttons
NextAuto ==
    \/ StartSimulation
    \/ FireTimer
    \/ Advance

SpecAuto ==
    /\ Init
    /\ [][NextAuto]_vars
    /\ WF_vars(FireTimer)
    /\ WF_vars(Advance)

----------------------------------------------------------------------------
(* A session in which the player acts in a burst: several gestures of one
   sort in a row, at the instant a phase is entered *)

\* gestures per burst
MaxBurst == 6

\* the first member of ids in each class of key
FirstOfEach(ids, key(_)) == {i \in ids : \A j \in ids : key(j) = key(i) => i <= j}

\* the last member of ids in each class of key
LastOfEach(ids, key(_)) == {i \in ids : \A j \in ids : key(j) = key(i) => j <= i}

\* whether the callback that marks person i as evacuated is scheduled
EvacuationPending(i) ==
    \E t \in 1..Len(timers) :
        /\ timers[t].cb.k = "evacuated"
        /\ (IF sim.type = "flood" THEN timers[t].cb.a \div 2 ELSE timers[t].cb.a) = i

StudentKey(i) == <<sim.students[i], EvacuationPending(i)>>
SignKey(k) == sim.signs[k]
LsResidentKey(i) == sim.residents[i]
FlResidentKey(i) == <<sim.residents[i], EvacuationPending(i)>>
SupplyKey(k) == sim.supplies[k]

\* the entities a click can hit, one of each status; an evacuated student
\* has been removed from the scene.  In the flood the player starts with the
\* residents the staggered evacuation leaves out, those of the last houses
PlayTargets ==
    CASE sim.type = "earthquake" ->
            {<<"kit", 0>>}
            \cup {<<"student", i>> :
                    i \in FirstOfEach({i \in EqStudentIds : ~sim.students[i].evacuated},
                                      StudentKey)}
      [] sim.type = "landslide" ->
            {<<"warningSystem", 0>>}
            \cup {<<"sign", k>> : k \in FirstOfEach(LsSignIds, SignKey)}
            \cup {<<"resident", i>> : i \in FirstOfEach(LsResidentIds, LsResidentKey)}
      [] sim.type = "flood" ->
            {<<"supply", k>> : k \in FirstOfEach(FlSupplyIds, SupplyKey)}
            \cup {<<"resident", i>> : i \in LastOfEach(FlResidentIds, FlResidentKey)}
      [] OTHER -> {}

\* the player may add a gesture to the burst: bursts are made at the
\* instant a phase was entered
CanBurst ==
    /\ AtRest
    /\ now = obs.enteredAt
    /\ Len(obs.burst) < MaxBurst

\* a burst is made at one instant and is of one sort
InBurst(sort) == obs.burst # <<>> => (obs.burst[1].at = now /\ obs.burst[1].sort = sort)

Burst(w, sort) == [w EXCEPT !.obs.burst = Append(@, [at |-> w.now, sort |-> sort])]

\* the player picks a disaster card; the person objects have no material
PlayStart ==
    \E d \in Disasters :
        /\ game.currentSimulation = "none"
        /\ ~game.simulationModule
        /\ sim = NoSim
        /\ Becomes(GameStartSimulation([World EXCEPT !.obs.start = Append(@, d)],
                                       d, <<{}, FALSE>>))

\* a click on a button of the instructions panel, the restart button
\* excepted: at the instant a phase is entered, or on a completion panel.
\* "Start Evacuation" leaves its panel open, and is pressed MaxInputs times
PlayPress ==
    \E i \in 1..Len(ui.instrActions) :
        /\ sim.type # "none"
        /\ ui.instrVisible
        /\ DueTimers = {}
        /\ ui.instrActions[i].k # "restart"
        /\ now = obs.enteredAt \/ ui.instrActions[i].k \in {"viewResults", "returnToMenu"}
        /\ LET cb == ui.instrActions[i]
               w1 == RunCallback(World, cb)
           IN  CASE cb.k = "startFloodPhase" ->
                       /\ obs.inputs < MaxInputs
                       /\ Becomes(Gesture(w1))
                 [] cb.k \in {"viewResults", "returnToMenu"} ->
                       Becomes([w1 EXCEPT !.obs.acked = TRUE])
                 [] OTHER -> Becomes(w1)

PlayDrop ==
    /\ CanBurst
    /\ ui.ddVisible
    /\ InBurst("drop")
    /\ \E itemIndex \in DragIds, zoneIndex \in FirstAndLast(DOMAIN ui.ddZones) :
          Becomes(Burst(OnDrop(World, itemIndex, zoneIndex), "drop"))

PlayClick ==
    /\ CanBurst
    /\ game.gameEngine
    /\ \E target \in PlayTargets :
          /\ InBurst(target[1])
          /\ Becomes(Burst(OnClick(World, target), target[1]))

NextPlay ==
    \/ PlayStart
    \/ PlayPress
    \/ PlayDrop
    \/ PlayClick
    \/ FireTimer
    \/ Frame
    \/ Advance

SpecPlay == Init /\ [][NextPlay]_vars

\* a player who keeps dropping the wrong thing when the panel opens: any
\* number of drops of something that is no item of the panel, at the instant
\* the phase is entered, until MaxWrong mistakes are recorded; the sessions
\* are those that count mistakes
MaxWrong == 12

SeriesStart ==
    \E d \in {"earthquake", "landslide"} :
      \E outcome \in SceneOutcomes(d) :
        /\ game.currentSimulation = "none"
        /\ ~game.simulationModule
        /\ sim = NoSim
        /\ Becomes(GameStartSimulation([World EXCEPT !.obs.start = Append(@, d)],
                                       d, outcome))

SeriesDrop ==
    \E zoneIndex \in FirstAndLast(DOMAIN ui.ddZones) :
        /\ AtRest
        /\ now = obs.enteredAt
        /\ ui.ddVisible
        /\ sim.mistakes < MaxWrong
        /\ Becomes(OnDrop(World, 0, zoneIndex))

NextSeries ==
    \/ SeriesStart
    \/ PressButton
    \/ SeriesDrop
    \/ ResetSimulation
    \/ FireTimer
    \/ Advance

SpecSeries == Init /\ [][NextSeries]_vars

----------------------------------------------------------------------------
(* Properties of the objectives, under burst play *)

SafeStudents == {i \in EqStudentIds : sim.students[i].safe}

\* C21: in an earthquake session with 8 students, dropCoverHold is false
\* while fewer than 6 students are safe, and true once the correct drop that
\* makes the sixth distinct student safe has run
C21_DropCoverHoldAtSixth ==
    sim.type = "earthquake" =>
        (sim.objectives.dropCoverHold <=> Cardinality(SafeStudents) >= 6)

C21_Witness ==
    /\ sim.type = "earthquake"
    /\ Cardinality(SafeStudents) = 6
    /\ sim.objectives.dropCoverHold
    /\ Len(obs.burst) = 6
    /\ obs.burst[6].sort = "drop"

\* the step is a click of the burst, on an entity of the sort
BurstClick(sort) ==
    /\ Len(obs'.burst) = Len(obs.burst) + 1
    /\ obs'.burst[Len(obs'.burst)].sort = sort

IdentifiedSigns == {k \in LsSignIds : sim.signs[k].identified}

\* C22: in a landslide session a click on a warning sign not yet identified
\* counts it and adds 10 to the score; the click that identifies the fifth
\* distinct sign sets identifyWarningSigns and adds 50 more; a click on a
\* sign already identified changes neither the count nor the score
C22_Step ==
    (sim.type = "landslide" /\ BurstClick("sign")) =>
        IF IdentifiedSigns' # IdentifiedSigns
        THEN /\ sim'.warningSignsFound = sim.warningSignsFound + 1
             /\ sim'.warningSignsFound = Cardinality(IdentifiedSigns')
             /\ IF sim'.warningSignsFound = 5
                THEN /\ sim'.objectives.identifyWarningSigns
                     /\ sim'.score = sim.score + 10 + 50
                ELSE sim'.score >= sim.score + 10
        ELSE /\ sim'.warningSignsFound = sim.warningSignsFound
             /\ sim'.score = sim.score

C22_FifthSign == [][C22_Step]_vars

RescuedResidents == {i \in FlResidentIds : sim.residents[i].rescued}

\* C23: in a flood session, once 7 of the 10 residents are rescued
\* evacuateResidents is true, and once all 10 are rescued rescueStranded is
\* true
C23_RescueObjectives ==
    sim.type = "flood" =>
        /\ Cardinality(RescuedResidents) >= 7 => sim.objectives.evacuateResidents
        /\ Cardinality(RescuedResidents) = 10 => sim.objectives.rescueStranded

\* the first half of C23's statement
C23_SevenRescued ==
    (sim.type = "flood" /\ Cardinality(RescuedResidents) >= 7)
        => sim.objectives.evacuateResidents

C23_SevenReached ==
    /\ sim.type = "flood"
    /\ Cardinality(RescuedResidents) = 7
    /\ sim.rescuedResidents = 7
    /\ sim.objectives.evacuateResidents

\* the bonus a step adds on top of what the counters account for cannot be
\* read off the score alone: the steps below are those of the three handlers
\* that set an objective and add its bonus

\* C24: the bonus that goes with setting an objective is added at most once
\* in a session: a step that finds the objective set adds no bonus again
\* (landslide identifyWarningSigns +50, earthquake checkInjuries +50, flood
\* establishShelter +100)
C24_Step ==
    /\ (sim.type = "earthquake" /\ BurstClick("kit") /\ sim.objectives.checkInjuries)
          => sim'.score = sim.score
    /\ (sim.type = "landslide" /\ BurstClick("sign") /\ sim.objectives.identifyWarningSigns)
          => sim'.score <= sim.score + 10
    /\ (sim.type = "flood" /\ sim'.type = "flood" /\ sim.objectives.establishShelter)
          => sim'.score < sim.score + 100

C24_BonusOnce == [][C24_Step]_vars

----------------------------------------------------------------------------
(* The calls the browser can make into a session, and the session states
   they can find: every handler applied to every degree of progress *)

ObjectiveNames(d) ==
    CASE d = "earthquake" -> DOMAIN EqObjectives
      [] d = "landslide"  -> DOMAIN LsObjectives
      [] d = "flood"      -> DOMAIN FlObjectives

\* the session of type d as start() leaves it
StartedWorlds(d) ==
    {GameStartSimulation([game |-> InitGame, sim |-> NoSim, ui |-> InitUi,
                          timers |-> <<>>, frames |-> <<>>, now |-> 0, obs |-> InitObs],
                         d, outcome) : outcome \in SceneOutcomes(d)}

\* the session in phase p with the first a entities of its first kind and the
\* first b of its second kind done, and the counters that go with them
ProgressWorld(w, p, a, b) ==
    CASE w.sim.type = "earthquake" ->
            [w EXCEPT !.sim.currentPhase = p,
                      !.sim.isEarthquakeActive = (p = 1),
                      !.sim.students = [i \in EqStudentIds |-> [safe |-> i < a, evacuated |-> i < b]],
                      !.sim.evacuatedStudents = b]
      [] w.sim.type = "landslide" ->
            [w EXCEPT !.sim.currentPhase = p,
                      !.sim.signs = [k \in LsSignIds |-> [identified |-> k < a]],
                      !.sim.warningSignsFound = a,
                      !.sim.residents = [i \in LsResidentIds |-> [evacuated |-> i < b]],
                      !.sim.evacuatedResidents = b]
      [] w.sim.type = "flood" ->
            [w EXCEPT !.sim.currentPhase = p,
                      !.sim.residents = [i \in FlResidentIds |->
                                           [@[i] EXCEPT !.rescued = i < a, !.inShelter = i < a]],
                      !.sim.rescuedResidents = a,
                      !.sim.supplies = [k \in FlSupplyIds |-> [collected |-> k < b]],
                      !.sim.suppliesDistributed = b]

FirstKind(d) ==
    CASE d = "earthquake" -> EqStudentIds [] d = "landslide" -> LsSignIds [] d = "flood" -> FlResidentIds
SecondKind(d) ==
    CASE d = "earthquake" -> EqStudentIds [] d = "landslide" -> LsResidentIds [] d = "flood" -> FlSupplyIds

ProgressWorlds(d) ==
    {ProgressWorld(w, p, a, b) :
        w \in StartedWorlds(d), p \in 0..3,
        a \in 0..Cardinality(FirstKind(d)), b \in 0..Cardinality(SecondKind(d))}

\* the calls: a timer, frame or button callback, a click on an object, a drop
SessionCalls(d) ==
    {<<"callback", Callback("phase", p)>> : p \in 0..3}
    \cup {<<"callback", Callback("hideInstructions", 0)>>}
    \cup
    CASE d = "earthquake" ->
            {<<"callback", Callback(k, 0)>> :
                k \in {"startEarthquakePhase", "startEvacuationPhase", "complete"}}
            \cup {<<"callback", Callback(k, i)>> : k \in {"stagger", "evacuated"}, i \in EqStudentIds}
            \cup {<<"click", <<k, 0>>>> : k \in {"desk", "exit", "teacher", "kit"}}
            \cup {<<"click", <<"student", i>>>> : i \in EqStudentIds}
            \cup {<<"drop", <<i, j>>>> : i \in EqStudentIds, j \in EqDeskIds}
      [] d = "landslide" ->
            {<<"callback", Callback(k, 0)>> :
                k \in {"showWarningInterface", "takeCover", "restart", "returnToMenu"}}
            \cup {<<"click", <<"warningSystem", 0>>>>}
            \cup {<<"click", <<"sign", k>>>> : k \in LsSignIds}
            \cup {<<"click", <<"resident", i>>>> : i \in LsResidentIds}
      [] d = "flood" ->
            {<<"callback", Callback(k, 0)>> :
                k \in {"startFloodPhase", "startRescuePhase", "raiseWater", "recedeWater"}}
            \cup {<<"callback", Callback("evacuate", i)>> : i \in FlResidentIds}
            \cup {<<"callback", Callback("evacuated", (2 * i) + c)>> : i \in FlResidentIds, c \in 0..1}
            \cup {<<"callback", Callback(k, n)>> : k \in {"supplyMove", "supplyDone"}, n \in FlSupplyIds}
            \cup {<<"click", <<k, 0>>>> : k \in {"center", "boat", "building"}}
            \cup {<<"click", <<"supply", k>>>> : k \in FlSupplyIds}
            \cup {<<"click", <<"resident", i>>>> : i \in FlResidentIds}

\* the session after the call; a drop reaches the session through the
\* host's onCorrectDrop
SessionCall(w, call) ==
    CASE call[1] = "callback" -> RunCallback(w, call[2])
      [] call[1] = "click"    -> OnClick(w, call[2])
      [] call[1] = "drop"     ->
            IF "onCorrectDrop" \in SessionProvides(w.sim.type)
            THEN EqOnCorrectDrop(w, ItemId("student", call[2][1]), ItemId("desk", call[2][2]))
            ELSE w

\* the objectives of a session of type d that some call sets
Triggered(d) ==
    {f \in ObjectiveNames(d) :
        \E w \in ProgressWorlds(d) : \E call \in SessionCalls(d) :
            /\ ~w.sim.objectives[f]
            /\ LET after == SessionCall(w, call)
               IN  after.sim.type = d /\ after.sim.objectives[f]}

\* C25: every objective of every session has a triggering condition: for
\* each of the five flags of the earthquake, landslide and flood sessions
\* some call into the session, in some state of progress, sets it (stated of
\* the session that is running)
C25_EveryObjectiveTriggered ==
    sim.type \in Disasters => Triggered(sim.type) = ObjectiveNames(sim.type)

\* the objectives that do have a trigger
C25_Triggered ==
    /\ Triggered("earthquake") =
          {"dropCoverHold", "checkInjuries", "evacuateSafely", "assembleAtSafePoint"}
    /\ Triggered("landslide") = {"activateWarningSystem", "avoidDangerZone"}
    /\ Triggered("flood") = {"prepareSupplies", "evacuateResidents", "establishShelter"}

\* the other objectives are false in every state of every session
C25_NeverTrue ==
    /\ sim.type = "earthquake" => ~sim.objectives.stayCalm
    /\ sim.type = "landslide" =>
          /\ ~sim.objectives.identifyWarningSigns
          /\ ~sim.objectives.evacuateResidents
          /\ ~sim.objectives.reachSafeZone
    /\ sim.type = "flood" => ~sim.objectives.buildBarriers /\ ~sim.objectives.rescueStranded

EvacuatedStudents == {i \in EqStudentIds : sim.students[i].evacuated}

\* C30: in an earthquake session evacuatedStudents is the number of students
\* whose evacuated flag is true, never more than totalStudents, whatever the
\* clicks and the staggered evacuation do; and evacuateSafely and
\* assembleAtSafePoint are true only if all 8 students are evacuated
C30_EvacuationCount ==
    sim.type = "earthquake" =>
        /\ sim.evacuatedStudents = Cardinality(EvacuatedStudents)
        /\ sim.evacuatedStudents <= EqTotalStudents
        /\ sim.objectives.evacuateSafely => EvacuatedStudents = EqStudentIds
        /\ sim.objectives.assembleAtSafePoint => EvacuatedStudents = EqStudentIds

\* the parts of C30's statement, each alone
C30_CountIsNumberEvacuated ==
    sim.type = "earthquake" => sim.evacuatedStudents = Cardinality(EvacuatedStudents)
C30_CountBounded ==
    sim.type = "earthquake" => sim.evacuatedStudents <= EqTotalStudents
C30_ObjectivesOnlyIfAll ==
    (sim.type = "earthquake" /\ (sim.objectives.evacuateSafely \/ sim.objectives.assembleAtSafePoint))
        => EvacuatedStudents = EqStudentIds

\* C35: in a flood session rescuedResidents is the number of residents whose
\* rescued flag is true and is never more than totalResidents, also when a
\* resident is clicked again while its move is in flight or 'Start
\* Evacuation' is triggered more than once
C35_RescueCount ==
    sim.type = "flood" =>
        /\ sim.rescuedResidents = Cardinality(RescuedResidents)
        /\ sim.rescuedResidents <= FlTotalResidents

\* the parts of C35's statement, each alone
C35_CountIsNumberRescued ==
    sim.type = "flood" => sim.rescuedResidents = Cardinality(RescuedResidents)
C35_CountBounded ==
    sim.type = "flood" => sim.rescuedResidents <= FlTotalResidents

\* C36: in a flood session no evacuation center holds more occupants than
\* its capacity, also when several evacuations are in flight at once
C36_WithinCapacity ==
    sim.type = "flood" =>
        \A c \in 0..1 : sim.centers[c].occupants <= FlCapacity[c + 1]

\* as long as every arrival at a center was a resident's first, the centers
\* are within their capacity
C36_FirstArrivalsFit ==
    (sim.type = "flood"
        /\ sim.centers[0].occupants + sim.centers[1].occupants = Cardinality(RescuedResidents))
    => \A c \in 0..1 : sim.centers[c].occupants <= FlCapacity[c + 1]

\* the host operations the code of a session calls (this.game.<operation>)
HostCalls(d) ==
    CASE d = "earthquake" ->
            {"updateProgress", "showInstructions", "hideInstructions",
             "showDragDropPanel", "hideDragDropPanel", "completeSimulation"}
      [] d = "landslide" ->
            {"updateProgress", "showInstructions", "hideInstructions",
             "showDragDropPanel", "hideDragDropPanel", "showFeedback", "returnToMenu"}
      [] d = "flood" ->
            {"updateProgress", "showInstructions", "hideInstructions",
             "showDragDropPanel", "hideDragDropPanel", "completeSimulation"}

\* a click on a warning sign not yet identified runs to its threshold check
C29_Step ==
    (/\ sim.type = "landslide"
     /\ BurstClick("sign")
     /\ IdentifiedSigns' # IdentifiedSigns
     /\ sim'.warningSignsFound >= LsSignsNeeded)
        => sim'.objectives.identifyWarningSigns

\* the evacuation of the last resident runs to its threshold check
C29_LastResident ==
    \A w \in ProgressWorlds("landslide") : \A i \in LsResidentIds :
        LET after == OnClick(w, <<"resident", i>>)
        IN  (after # w /\ after.sim.evacuatedResidents >= LsTotalResidents)
                => after.sim.objectives.evacuateResidents

\* C29: every host operation the handlers of a session call is one the host
\* provides, so that no handler aborts part-way: a click on a warning sign
\* and the evacuation of a resident in the landslide session run to their
\* end, threshold checks included
C29_HostOperationsProvided ==
    /\ [](sim.type \in Disasters => HostCalls(sim.type) \subseteq HostProvides)
    /\ [](sim.type = "landslide" => C29_LastResident)
    /\ [][C29_Step]_vars

\* the parts of C29's statement, each alone
C29_CallsProvided == sim.type \in Disasters => HostCalls(sim.type) \subseteq HostProvides
C29_ResidentsRunToEnd == sim.type = "landslide" => C29_LastResident
C29_SignsRunToEnd == [][C29_Step]_vars
C29_OthersProvided ==
    sim.type \in {"earthquake", "flood"} => HostCalls(sim.type) \subseteq HostProvides

----------------------------------------------------------------------------
(* Properties of the timed sessions *)

InSession == sim.type # "none"

\* the timer the event loop is about to run is the auto-advance timer of
\* some phase
PhaseTimerDue == DueTimers # {} /\ timers[NextTimer].cb.k = "phase"
DuePhase == timers[NextTimer].cb.a

AllEnteredOnce == \A p \in DOMAIN obs.entries : obs.entries[p] = 1

C1_Step ==
    /\ (PhaseTimerDue /\ sim.currentPhase # DuePhase)
          => (sim' = sim /\ ui' = ui /\ game' = game /\ obs' = obs /\ frames' = frames)
    /\ (PhaseTimerDue /\ sim.currentPhase = DuePhase /\ DuePhase + 1 < Len(Phases(sim.type)))
          => (sim'.currentPhase = DuePhase + 1 /\ obs'.entries[DuePhase + 1] = obs.entries[DuePhase + 1] + 1)
    /\ (InSession /\ sim'.type = sim.type /\ obs'.resets = 0)
          => /\ sim'.currentPhase \in {sim.currentPhase, sim.currentPhase + 1}
             /\ \A p \in DOMAIN obs.entries : obs'.entries[p] <= 1
             /\ obs'.entries # obs.entries => now - obs.enteredAt >= PhaseAt(sim.type, sim.currentPhase).duration

\* C1: in each session the auto-advance timer of phase N starts phase N + 1
\* only if the current phase is still N, and otherwise changes nothing; in a
\* run without reset the phase index moves by single steps, no phase is
\* entered twice, and a phase is left by its timer only after its duration
C1_GuardedAdvance == [][C1_Step]_vars

\* a session without reset that went through all four phases to completion
C1_Witness == InSession /\ obs.resets = 0 /\ obs.completions = 1 /\ AllEnteredOnce

C26_Step ==
    /\ (InSession /\ sim'.type = sim.type /\ obs'.resets = obs.resets)
          => sim'.currentPhase >= sim.currentPhase
    /\ (PhaseTimerDue /\ sim.currentPhase = DuePhase /\ DuePhase + 1 >= Len(Phases(sim.type)))
          => /\ obs'.completions = obs.completions + 1
             /\ sim'.currentPhase = sim.currentPhase
             /\ timers' = RemoveAt(timers, NextTimer)
             /\ frames' = frames

\* C26: in every state of a session currentPhase is an index of the phase
\* table (0..3); between resets it never decreases; startPhase with an index
\* past the last phase triggers completion, leaves currentPhase as it is and
\* schedules no timer
C26_PhaseIndex ==
    /\ [](InSession => sim.currentPhase \in 0..(Len(Phases(sim.type)) - 1))
    /\ [][C26_Step]_vars

\* a session reset once, and later completed by the timer of its last phase
C26_Witness ==
    /\ InSession
    /\ obs.resets = 1
    /\ obs.completions = 1
    /\ sim.currentPhase = 3
    /\ \A i \in 1..Len(timers) : timers[i].cb.k # "phase"

\* the phases entered so far are those up to the current one, once each
EnteredInOrder ==
    \A p \in DOMAIN obs.entries :
        obs.entries[p] = (IF p <= sim.currentPhase THEN 1 ELSE 0)

\* C27: a session that is started and then left alone, every timer firing
\* when it is due, enters the phases 0, 1, 2, 3 in that order, each once,
\* and then completes: completeSimulation is eventually called
C27_RunsToCompletion ==
    /\ [](InSession => EnteredInOrder)
    /\ [](InSession /\ obs.completions > 0 => sim.currentPhase = 3)
    /\ (InSession ~> obs.completions > 0)

\* the session completed at the end of its last phase
C27_Witness ==
    /\ InSession
    /\ obs.inputs = 0 /\ obs.resets = 0
    /\ obs.completions = 1
    /\ AllEnteredOnce
    /\ now = SeqSum(Durations(Phases(sim.type)))

\* a step of a flood session in which the water rises: a call of raiseWater
WaterRises == sim.type = "flood" /\ sim'.type = "flood" /\ sim'.waterLevel > sim.waterLevel

\* the residents that cannot swim, are not rescued and stand below the
\* new water level + 1
Submerged ==
    {i \in FlResidentIds :
        /\ ~sim.residents[i].canSwim
        /\ ~sim.residents[i].rescued
        /\ FlResidentY(i) < sim'.waterLevel + 100}

PenaltyTaken ==
    /\ sim'.score = sim.score - (20 * Cardinality(Submerged))
    /\ sim'.accuracy = sim.accuracy - (5 * Cardinality(Submerged))
    /\ \E i \in 1..Len(frames') : frames'[i].k = "raiseWater"

C31_Step == WaterRises => PenaltyTaken

\* C31: in a flood session every call of raiseWater that raises the water
\* runs checkResidentsInDanger, which takes 20 from the score and 5 from the
\* accuracy for each unrescued non-swimmer below the water level + 1, with no
\* lower bound, and the next frame is requested: the penalty is taken again
\* on every frame
C31_PenaltyEveryFrame == [][C31_Step]_vars

\* C31's statement for sessions whose person objects have a material
C31_WithMaterial == [][(WaterRises /\ sim.personMaterial) => PenaltyTaken]_vars

\* a non-swimmer penalised on more than one frame
C31_Reached ==
    /\ sim.type = "flood"
    /\ Cardinality({i \in FlResidentIds : ~sim.residents[i].canSwim}) = 1
    /\ sim.accuracy < 0
    /\ sim.mistakes = 0

\* an earthquake session in its first run: no reset, no exit so far
FirstRun == sim.type = "earthquake" /\ obs.resets = 0 /\ obs.exits = 0

\* C32: in one run of an earthquake session completeSimulation is called at
\* most once, also when all students are evacuated before the last phase
\* ends, and the result is reported to the host at most once
C32_CompletesOnce == FirstRun => (obs.completions <= 1 /\ obs.reports <= 1)

\* the parts of C32's statement, each alone
C32_OneCompletion == FirstRun => obs.completions <= 1
C32_OneReport == FirstRun => obs.reports <= 1
\* a run in which the player only presses buttons, so that no student is
\* counted twice
C32_ButtonsOnly == (FirstRun /\ obs.inputs = 0) => obs.completions <= 1
\* a run in which the player does not start the evacuation
C32_TimerAlone ==
    (FirstRun /\ sim.evacuatedStudents = 0) => (obs.completions <= 1 /\ obs.reports <= 1)

\* exitSimulation has run to its end: the host holds no session any more
Exited == obs.exits > 0 /\ ~game.simulationModule /\ game.currentSimulation = "none"

\* a timer callback of the exited session calls no host operation: the
\* panels and the progress bar stay as they are, nothing is completed
C33_TimerStep ==
    (Exited /\ DueTimers # {}) =>
        /\ ui' = ui
        /\ obs'.completions = obs.completions
        /\ obs'.reports = obs.reports

\* C33: after exitSimulation no timer or delayed callback of the exited
\* session calls a host operation (updateProgress, showInstructions,
\* completeSimulation), and the player profile does not change
C33_ExitStopsDriver ==
    [][/\ C33_TimerStep
       /\ Exited => game'.playerData = game.playerData]_vars

\* the parts of C33's statement, each alone
C33_NoHostCall == [][C33_TimerStep]_vars
C33_ProfileKept == [][Exited => game'.playerData = game.playerData]_vars
C33_NoCompletion == [][Exited => obs'.completions = obs.completions]_vars

\* the delayed callbacks that mark an entity, with the delay they are set with
MarkDelay(k) == IF k = "evacuated" THEN 3000 ELSE 2000
\* the timer the event loop runs next was set before the last reset: reset
\* records its instant in startTime
StaleMark ==
    /\ obs.resets > 0
    /\ DueTimers # {}
    /\ timers[NextTimer].cb.k \in {"evacuated", "supplyDone"}
    /\ timers[NextTimer].due - MarkDelay(timers[NextTimer].cb.k) < sim.startTime

\* C34: after reset() a delayed evacuation, rescue or supply callback that
\* was scheduled before the reset does not alter the restarted session
C34_StaleCallbackInert == [][StaleMark => sim' = sim]_vars

\* the flood session's share of C34
C34_FloodCallbackInert == [][(StaleMark /\ sim.type = "flood") => sim' = sim]_vars

\* the same in states: a restarted earthquake session that has not reached
\* its evacuation phase has no evacuated student and no evacuation points
C34_NothingBeforeEvacuation ==
    (sim.type = "earthquake" /\ obs.resets > 0 /\ sim.currentPhase < 3 /\ obs.exits = 0) =>
        /\ sim.evacuatedStudents = 0
        /\ \A i \in DOMAIN sim.students : ~sim.students[i].evacuated

\* C37: in an earthquake and in a landslide session the accuracy is
\* max(0, 100 - 10 * mistakes) in every reachable state
C37_AccuracyFromMistakes ==
    sim.type \in {"earthquake", "landslide"} =>
        sim.accuracy = Max2(0, 100 - (10 * sim.mistakes))

\* an earthquake session with a mistake made, and one with more than ten,
\* where the floor applies; a landslide session with its mistakes counted
C37_Witness == sim.type = "earthquake" /\ sim.mistakes > 0 /\ sim.accuracy < 100
C37_Landslide == sim.type = "landslide" /\ sim.mistakes > 0 /\ sim.accuracy < 100
C37_Floored == sim.type = "earthquake" /\ sim.mistakes > 10 /\ sim.accuracy = 0

\* C2: in an earthquake or flood session, a phase is left by an auto-advance
\* timer only after it has lasted its configured duration, reset or not
C2_FullDuration ==
    [][(sim.type \in {"earthquake", "flood"} /\ sim'.type = sim.type
        /\ DueTimers # {} /\ obs'.entries # obs.entries)
          => now - obs.enteredAt >= PhaseAt(sim.type, sim.currentPhase).duration]_vars

\* f and g are functions to BOOLEAN on one domain: what is true in f is true in g
Keeps(f, g) == \A x \in DOMAIN f : f[x] => g[x]

\* the entity status flags of a session, as one function to BOOLEAN
EntityFlags(s) ==
    CASE s.type = "earthquake" ->
            [x \in {"safe", "evacuated"} \X EqStudentIds |->
                IF x[1] = "safe" THEN s.students[x[2]].safe ELSE s.students[x[2]].evacuated]
      [] s.type = "landslide" ->
            [x \in ({"evacuated"} \X LsResidentIds) \cup ({"identified"} \X LsSignIds) |->
                IF x[1] = "evacuated" THEN s.residents[x[2]].evacuated
                ELSE s.signs[x[2]].identified]
      [] s.type = "flood" ->
            [x \in ({"rescued", "inShelter"} \X FlResidentIds) \cup ({"collected"} \X FlSupplyIds) |->
                CASE x[1] = "rescued"   -> s.residents[x[2]].rescued
                  [] x[1] = "inShelter" -> s.residents[x[2]].inShelter
                  [] x[1] = "collected" -> s.supplies[x[2]].collected]

\* C3: in a step that is not a reset or a restart, every objective flag and
\* every entity status flag that is true stays true
C3_FlagsMonotonic ==
    [][(InSession /\ sim'.type = sim.type /\ obs'.resets = obs.resets)
          => (Keeps(sim.objectives, sim'.objectives)
              /\ Keeps(EntityFlags(sim), EntityFlags(sim')))]_vars

\* a student made safe in the earthquake phase is still safe two phases later
C3_Witness ==
    /\ sim.type = "earthquake"
    /\ obs.resets = 0
    /\ sim.currentPhase = 3
    /\ \E i \in EqStudentIds : sim.students[i].safe

C7_ReportedOnceAcknowledged ==
    obs.acked => (obs.reports >= 1 /\ game.playerData.completedSimulations[sim.type].present)

\* C8: every badge in the earned set satisfies its requirement predicate on
\* the profile as completeSimulation left it
C8_BadgesMeetRequirements ==
    \A i \in 1..Len(game.playerData.badges) :
        CheckBadgeRequirements(game.playerData.badges[i], game.playerData)

\* C9: once a completion has been reported, every badge whose requirement
\* predicate holds on the profile is in the earned set
C9_SatisfiedBadgesEarned ==
    obs.reports >= 1 =>
        \A b \in GetEarnedBadges(game.playerData) : Includes(game.playerData.badges, b)

\* the drop the host handled last, and whether it was a drop of an item of
\* the panel
LastDrop == obs.drop[1]
ItemDropped == obs.drop # <<>> /\ LastDrop.item # 0

\* C11: for a drop of an item of the panel, the session callback the host
\* calls is onCorrectDrop if the item's type is among the types the zone
\* accepts, and onIncorrectDrop if it is not
C11_DropDispatch ==
    ItemDropped =>
        LastDrop.called = (IF LastDrop.type \in LastDrop.accepts
                           THEN "onCorrectDrop" ELSE "onIncorrectDrop")

\* C12: a drop of an item of the panel that the zone accepts raises the
\* score of the session; one the zone does not accept adds one mistake and
\* takes 10 from the accuracy, down to 0
C12_DropEffects ==
    [][(obs'.drop # obs.drop /\ obs'.drop[1].item # 0) =>
          IF obs'.drop[1].type \in obs'.drop[1].accepts
          THEN sim'.score > sim.score
          ELSE /\ sim'.mistakes = sim.mistakes + 1
               /\ sim'.accuracy = Max2(0, sim.accuracy - 10)]_vars

C14_TotalCountsScoreOnce ==
    [][obs'.reports = obs.reports + 1 =>
          game'.playerData.totalScore =
              game.playerData.totalScore
              + game'.playerData.completedSimulations[sim.type].score]_vars

IsHostReset == obs'.hostResets = obs.hostResets + 1
IsExit == obs'.exits = obs.exits + 1

\* C17: every session class has start, reset and cleanup: for each disaster
\* type the host's resetSimulation restarts the session (phase 0 is entered
\* again, with a fresh start time), and exitSimulation runs to its end,
\* leaving gameEngine, simulationModule and currentSimulation null
C17_ResetAndExitSupported ==
    [][/\ IsHostReset =>
            /\ sim'.currentPhase = 0
            /\ sim'.startTime = now
            /\ obs'.entries[0] = obs.entries[0] + 1
       /\ IsExit =>
            /\ ~game'.gameEngine
            /\ ~game'.simulationModule
            /\ game'.currentSimulation = "none"]_vars

\* the status flags reset() writes, as one function to BOOLEAN
ResetFlags(s) ==
    IF s.type = "earthquake" THEN EntityFlags(s)
    ELSE [x \in {"rescued", "inShelter", "needsRescue", "stranded"} \X FlResidentIds |->
             CASE x[1] = "rescued"     -> s.residents[x[2]].rescued
               [] x[1] = "inShelter"   -> s.residents[x[2]].inShelter
               [] x[1] = "needsRescue" -> s.residents[x[2]].needsRescue
               [] x[1] = "stranded"    -> s.residents[x[2]].stranded]
         @@ [x \in {"collected"} \X FlSupplyIds |-> s.supplies[x[2]].collected]

\* C18: reset() of an earthquake or flood session restores the initial
\* values: currentPhase 0, score 0, accuracy 100, mistakes 0, the progress
\* counters 0, every objective false and every entity status flag false;
\* and it starts phase 0 again, with the time of the call as start time
C18_ResetRestores ==
    [][(IsHostReset /\ sim.type \in {"earthquake", "flood"}) =>
         /\ sim'.currentPhase = 0
         /\ sim'.score = 0
         /\ sim'.accuracy = 100
         /\ sim'.mistakes = 0
         /\ IF sim.type = "earthquake"
            THEN sim'.evacuatedStudents = 0
            ELSE /\ sim'.rescuedResidents = 0
                 /\ sim'.suppliesDistributed = 0
                 /\ sim'.barriersBuilt = 0
         /\ \A o \in DOMAIN sim'.objectives : ~sim'.objectives[o]
         /\ \A x \in DOMAIN ResetFlags(sim') : ~ResetFlags(sim')[x]
         /\ sim'.startTime = now
         /\ obs'.entries[0] = obs.entries[0] + 1
         /\ \E i \in 1..Len(timers') :
              /\ timers'[i].cb = Callback("phase", 0)
              /\ timers'[i].due = now + PhaseAt(sim.type, 0).duration]_vars

\* an earthquake session reset in its second phase, after a student was
\* put under a desk: the score is 0 again and no student is safe
C18_Witness ==
    /\ sim.type = "earthquake"
    /\ obs.hostResets = 1
    /\ obs.entries[0] = 2
    /\ obs.entries[1] = 1
    /\ obs.drop # <<>> /\ obs.drop[1].called = "onCorrectDrop"
    /\ sim.currentPhase = 0
    /\ sim.score = 0
    /\ \A i \in EqStudentIds : ~sim.students[i].safe

----------------------------------------------------------------------------
(* The final score as a function of the session state at completion *)

\* session states at the moment of completion: base score, accuracy and the
\* objectives met; timers may run late, so the time elapsed is not bounded
\* by the sum of the phase durations
ScoreBases == {0, 120, 850}
ScoreAccuracies == {0, 70, 100}
ScoreElapsed == {0, 1, 1500, 213000, 299999, 300000, 449999, 450000, 600000}
ObjectiveSets(d) ==
    CASE d = "earthquake" ->
            {{}, {"checkInjuries"},
             {"dropCoverHold", "checkInjuries", "evacuateSafely", "assembleAtSafePoint"}}
      [] d = "landslide" ->
            {{}, {"activateWarningSystem"}, {"activateWarningSystem", "avoidDangerZone"}}
      [] d = "flood" ->
            {{}, {"establishShelter"},
             {"establishShelter", "evacuateResidents", "prepareSupplies"}}

WithObjectives(objectives, S) == [o \in DOMAIN objectives |-> o \in S]

InitScore ==
    /\ game = [InitGame EXCEPT !.gameEngine = TRUE, !.simulationModule = TRUE]
    /\ ui = InitUi
    /\ timers = <<>>
    /\ frames = <<>>
    /\ obs = InitObs
    /\ mini = MiniLoaded
    /\ now \in ScoreElapsed
    /\ \E base \in ScoreBases, accuracy \in ScoreAccuracies :
         \/ \E S \in ObjectiveSets("earthquake") :
              sim = [EqNew EXCEPT !.currentPhase = 3, !.score = base,
                                  !.accuracy = accuracy,
                                  !.mistakes = (100 - accuracy) \div 10,
                                  !.objectives = WithObjectives(EqObjectives, S)]
         \/ \E S \in ObjectiveSets("landslide") :
              sim = [LsNew(TRUE) EXCEPT !.currentPhase = 3, !.score = base,
                                        !.accuracy = accuracy,
                                        !.mistakes = (100 - accuracy) \div 10,
                                        !.objectives = WithObjectives(LsObjectives, S)]
         \/ \E S \in ObjectiveSets("flood"), rescued \in {0, 7}, supplies \in {0, 6} :
              sim = [FlNew({}, TRUE) EXCEPT !.currentPhase = 3, !.score = base,
                                            !.accuracy = accuracy,
                                            !.rescuedResidents = rescued,
                                            !.suppliesDistributed = supplies,
                                            !.objectives = WithObjectives(FlObjectives, S)]

\* startPhase(phases.length): completeSimulation
CompleteEarthquake ==
    /\ sim.type = "earthquake" /\ obs.completions = 0
    /\ Becomes(EqCompleteSimulation(World))

CompleteLandslide ==
    /\ sim.type = "landslide" /\ obs.completions = 0
    /\ Becomes(LsCompleteSimulation(World))

CompleteFlood ==
    /\ sim.type = "flood" /\ obs.completions = 0
    /\ Becomes(FlCompleteSimulation(World))

NextScore ==
    \/ CompleteEarthquake
    \/ CompleteLandslide
    \/ CompleteFlood

SpecScore == InitScore /\ [][NextScore]_vars

\* the results the completion panel shows
ShownResults == ui.instrActions[1].r[1]
Elapsed == now - sim.startTime
TrueObjectives == Cardinality({o \in DOMAIN sim.objectives : sim.objectives[o]})

C6_LandslideScoreShape ==
    (obs.completions = 1 /\ sim.type = "landslide") =>
        \E timeBonus \in 0..200 :
            ShownResults.score =
                sim.score + timeBonus + AccuracyBonus(sim.accuracy) + (100 * TrueObjectives)

\* the session of the world w, started shift ms later and evaluated shift ms
\* later: the same session state and the same time elapsed
Shifted(w, shift) == [w EXCEPT !.now = @ + shift, !.sim.startTime = @ + shift]
ClockShifts == {0, 1, 60000, 86400000}

CalculateFinalScore(w) ==
    IF w.sim.type = "earthquake" THEN EqCalculateFinalScore(w) ELSE FlCalculateFinalScore(w)

\* C28: calculateFinalScore of the earthquake and flood sessions changes
\* nothing of the session: the completion that calls it leaves the session
\* state as it was; and its result is determined by the session state and
\* the time elapsed: evaluated again, or at another time of day with the same
\* time elapsed, it returns the results the completion panel shows
C28_Step ==
    (sim.type \in {"earthquake", "flood"} /\ obs'.completions = obs.completions + 1) =>
        /\ sim' = sim
        /\ now' = now
        /\ \A shift \in ClockShifts :
              CalculateFinalScore(Shifted(World, shift)) = ui'.instrActions[1].r[1]

----------------------------------------------------------------------------
(* checkBadgeRequirements as a function of the profile *)

\* entries a stored profile can hold for a disaster: none, or a record with
\* or without timeElapsed
ProfileScores == {499, 500, 550}
ProfileTimes == {Undefined, Def(400), Def(900), Def(901)}
ProfileEntries ==
    {NoEntry} \cup
    {[NoEntry EXCEPT !.present = TRUE, !.completed = c, !.score = sc,
                     !.accuracy = 100, !.timeElapsed = t] :
        c \in BOOLEAN, sc \in ProfileScores, t \in ProfileTimes}

InitBadge ==
    /\ sim = NoSim
    /\ ui = InitUi
    /\ timers = <<>>
    /\ frames = <<>>
    /\ now = 0
    /\ obs = InitObs
    /\ mini = MiniLoaded
    /\ \E e \in ProfileEntries, total \in {0, 2500} :
         game = [InitGame EXCEPT !.playerData.totalScore = total,
                                 !.playerData.completedSimulations.earthquake = e]

\* BadgeSystem.checkBadgeRequirements(badgeId, playerData), its answer noted
CheckBadge ==
    \E b \in BadgeIds :
        /\ obs.check = <<>>
        /\ obs' = [obs EXCEPT !.check =
                      << [badgeId |-> b,
                          result |-> CheckBadgeRequirements(b, game.playerData)] >>]
        /\ UNCHANGED <<game, sim, ui, timers, frames, now, mini>>

NextBadge == CheckBadge

SpecBadge == InitBadge /\ [][NextBadge]_vars

\* C10: checkBadgeRequirements('earthquake', profile) is true exactly when
\* the profile has an earthquake entry that is completed, with score >= 500
\* and with a timeElapsed that is <= 900
C10_EarthquakeBadgeExact ==
    (obs.check # <<>> /\ obs.check[1].badgeId = "earthquake") =>
        LET e == game.playerData.completedSimulations.earthquake
        IN  obs.check[1].result
              = (e.present /\ e.completed /\ e.score >= 500
                 /\ IsDef(e.timeElapsed) /\ e.timeElapsed[1] <= 900)

----------------------------------------------------------------------------
(* The host alone: the stored profile, the start of a simulation of an
   unknown type, and the reports of completed simulations *)

MaxReports == 3
MaxStarts == 2

\* texts localStorage may hold under 'disasterSimPlayerData'
StoredTexts ==
    {"",
     "undefined",
     "{\"totalScore\":15",
     "null",
     "{}",
     "{\"totalScore\":1500,\"level\":2}",
     "{\"badges\":null}",
     "{\"totalScore\":700,\"level\":1,\"badges\":[\"earthquake\"],\"completedSimulations\":{\"earthquake\":{\"completed\":true,\"score\":650,\"timeBonus\":50,\"accuracy\":100,\"completedAt\":\"1970-01-01T00:00:00.000Z\"}}}"}

\* localStorage.getItem: null, or the text stored
NoItem == [present |-> FALSE, text |-> ""]
StoredItems == {NoItem} \cup {[present |-> TRUE, text |-> t] : t \in StoredTexts}

\* an object with none of the profile's properties
NoProperties ==
    [totalScore |-> Undefined, level |-> Undefined, badges |-> Undefined,
     completedSimulations |-> Undefined]

\* JSON.parse on the texts above: a SyntaxError, or the value, as the
\* profile properties it has; a badges property is an array or not
JsonParse(text) ==
    CASE text = "" -> [throws |-> TRUE, value |-> NoProperties]
      [] text = "undefined" -> [throws |-> TRUE, value |-> NoProperties]
      [] text = "{\"totalScore\":15" -> [throws |-> TRUE, value |-> NoProperties]
      [] text = "null" -> [throws |-> FALSE, value |-> NoProperties]
      [] text = "{}" -> [throws |-> FALSE, value |-> NoProperties]
      [] text = "{\"totalScore\":1500,\"level\":2}" ->
            [throws |-> FALSE,
             value |-> [NoProperties EXCEPT !.totalScore = Def(1500), !.level = Def(2)]]
      [] text = "{\"badges\":null}" ->
            [throws |-> FALSE,
             value |-> [NoProperties EXCEPT
                           !.badges = Def([array |-> FALSE, items |-> <<>>])]]
      [] text = "{\"totalScore\":700,\"level\":1,\"badges\":[\"earthquake\"],\"completedSimulations\":{\"earthquake\":{\"completed\":true,\"score\":650,\"timeBonus\":50,\"accuracy\":100,\"completedAt\":\"1970-01-01T00:00:00.000Z\"}}}" ->
            [throws |-> FALSE,
             value |-> [totalScore |-> Def(700), level |-> Def(1),
                        badges |-> Def([array |-> TRUE, items |-> <<"earthquake">>]),
                        completedSimulations |->
                            Def([d \in Disasters |->
                                   IF d = "earthquake"
                                   THEN [NoEntry EXCEPT !.present = TRUE, !.completed = TRUE,
                                                        !.score = 650, !.timeBonus = 50,
                                                        !.accuracy = 100]
                                   ELSE NoEntry])]]

\* {...playerData, ...value}: the properties value has replace the profile's
Spread(playerData, value) ==
    [totalScore |-> IF IsDef(value.totalScore) THEN value.totalScore[1]
                    ELSE playerData.totalScore,
     level |-> IF IsDef(value.level) THEN value.level[1] ELSE playerData.level,
     badges |-> IF IsDef(value.badges) THEN value.badges[1].items ELSE playerData.badges,
     completedSimulations |->
         IF IsDef(value.completedSimulations) THEN value.completedSimulations[1]
         ELSE playerData.completedSimulations]

\* updateUI reads playerData.badges.length: a TypeError unless badges is an
\* array
UpdateUIThrows(value) == IsDef(value.badges) /\ ~value.badges[1].array

\* loadPlayerData without its try/catch
LoadPlayerDataUncaught(w, saved) ==
    LET parsed == JsonParse(saved.text)
        truthy == saved.present /\ saved.text # ""
        merged == IF truthy /\ ~parsed.throws
                  THEN Spread(w.game.playerData, parsed.value)
                  ELSE w.game.playerData
        failed == truthy /\ (parsed.throws \/ UpdateUIThrows(parsed.value))
    IN  [w EXCEPT !.game.playerData = merged,
                  !.obs.load = << [saved |-> saved, failed |-> failed] >>]

\* DisasterSimGame.loadPlayerData: a stored text is parsed inside try/catch
\* and spread over the defaults; updateUI follows, outside the try
LoadPlayerData(w, saved) ==
    LET parsed == JsonParse(saved.text)
        truthy == saved.present /\ saved.text # ""
        merged == IF truthy /\ ~parsed.throws
                  THEN Spread(w.game.playerData, parsed.value)
                  ELSE w.game.playerData
        failed == truthy /\ ~parsed.throws /\ UpdateUIThrows(parsed.value)
    IN  [w EXCEPT !.game.playerData = merged,
                  !.obs.load = << [saved |-> saved, failed |-> failed] >>]

\* the constructor has set the defaults; loadPlayerData is its last step
InitHost ==
    /\ game = InitGame
    /\ sim = NoSim
    /\ ui = InitUi
    /\ timers = <<>>
    /\ frames = <<>>
    /\ now = 0
    /\ obs = InitObs
    /\ mini = MiniLoaded

LoadStored ==
    \E saved \in StoredItems :
        /\ obs.load = <<>>
        /\ Becomes(LoadPlayerData(World, saved))

\* the host exists once its constructor has returned
Constructed == obs.load # <<>> /\ ~obs.load[1].failed

\* disaster types no card carries
UnknownTypes == {"tsunami", ""}

\* startSimulation(disasterType) with a type that is none of the three
StartUnknown ==
    \E disasterType \in UnknownTypes :
        /\ Constructed
        /\ Len(obs.start) < MaxStarts
        /\ Becomes(GameStartSimulation(
               [World EXCEPT !.obs.start = Append(@, disasterType)],
               disasterType, <<{}, FALSE>>))

\* the result records sessions report
ReportedResults ==
    [disaster : Disasters, score : {250, 1200}, timeBonus : {50}, accuracy : {70, 100}]

\* a session reports its results, a second later than the last event
Report ==
    \E results \in ReportedResults :
        /\ Constructed
        /\ obs.reports < MaxReports
        /\ Becomes(GameCompleteSimulation(
               [World EXCEPT !.now = @ + 1000, !.obs.result = << results >>],
               results))

NextHost ==
    \/ LoadStored
    \/ StartUnknown
    \/ Report

SpecHost == InitHost /\ [][NextHost]_vars

NoDuplicates(s) == \A i, j \in 1..Len(s) : s[i] = s[j] => i = j
IsReport == obs'.reports = obs.reports + 1

\* C15: badge awarding is idempotent: after any sequence of
\* completeSimulation calls the list of earned badges holds no id twice, and
\* a call shows the badge modal only for a badge it newly adds to the list
C15_BadgeAwardIdempotent ==
    [][IsReport =>
         /\ NoDuplicates(game'.playerData.badges)
         /\ obs'.modals \in {obs.modals, obs.modals + 1}
         /\ obs'.modals = obs.modals + 1 =>
              /\ ~Includes(game.playerData.badges, ui'.badgeModal)
              /\ Includes(game'.playerData.badges, ui'.badgeModal)
              /\ ui'.badgeModal = obs'.result[1].disaster]_vars

\* the same disaster reported twice: one badge, one modal
C15_Witness ==
    /\ obs.reports = 2
    /\ obs.modals = 1
    /\ game.playerData.badges = <<"flood">>
    /\ game.playerData.totalScore > 1250

\* C16: completeSimulation(results) records, under results.disaster, an
\* entry {completed: true, score, timeBonus, accuracy, completedAt} with
\* the values reported and the time of the call; the entries of the other
\* disasters and the badges earned before stay as they were
C16_EntryRecordedOthersKept ==
    [][IsReport =>
         LET results == obs'.result[1]
             before == game.playerData
             after == game'.playerData
             entry == after.completedSimulations[results.disaster]
         IN  /\ entry.present /\ entry.completed
             /\ entry.score = results.score
             /\ entry.timeBonus = results.timeBonus
             /\ entry.accuracy = results.accuracy
             /\ entry.completedAt = now'
             /\ \A d \in Disasters \ {results.disaster} :
                    after.completedSimulations[d] = before.completedSimulations[d]
             /\ Len(after.badges) >= Len(before.badges)
             /\ \A i \in 1..Len(before.badges) : after.badges[i] = before.badges[i]]_vars

\* a flood report after an earthquake report: both entries and both badges
C16_Witness ==
    /\ obs.reports = 2
    /\ obs.result[1].disaster = "flood"
    /\ game.playerData.completedSimulations.earthquake.present
    /\ game.playerData.completedSimulations.earthquake.completedAt = 1000
    /\ game.playerData.completedSimulations.flood.completedAt = 2000
    /\ game.playerData.badges = <<"earthquake", "flood">>

IsStart == Len(obs'.start) = Len(obs.start) + 1

\* C19: startSimulation with a type other than 'earthquake', 'landslide'
\* and 'flood' ends with the alert: no session is created or started, and
\* currentSimulation stays null
C19_UnknownTypeAlert ==
    [][(IsStart /\ obs'.start[Len(obs'.start)] \notin Disasters) =>
         /\ obs'.alerts = obs.alerts + 1
         /\ sim' = NoSim
         /\ ~game'.simulationModule
         /\ game'.currentSimulation = "none"
         /\ timers' = <<>> /\ frames' = <<>>]_vars

\* 'tsunami' was asked for and refused
C19_Witness ==
    /\ obs.start = <<"tsunami">>
    /\ obs.alerts = 1
    /\ game.currentSimulation = "none"
    /\ game.gameEngine

\* C20: when the stored profile cannot be parsed, loadPlayerData drops it:
\* the profile is the defaults (totalScore 0, level 1, no badges, no
\* completed simulations), and the load does not fail
C20_UnparsableDiscarded ==
    [][(obs.load = <<>> /\ obs'.load # <<>>
          /\ obs'.load[1].saved.present
          /\ JsonParse(obs'.load[1].saved.text).throws) =>
         /\ game'.playerData = DefaultPlayerData
         /\ ~obs'.load[1].failed]_vars

\* a truncated text was stored, and the host works from the defaults
C20_Witness ==
    /\ obs.load # <<>>
    /\ obs.load[1].saved.text = "{\"totalScore\":15"
    /\ ~obs.load[1].failed
    /\ game.playerData.level = 1
    /\ obs.reports = 1

----------------------------------------------------------------------------
(* The 2D mini-game played: the start button, the keys and the display *)

\* games per behaviour
MaxGames == 2
\* key events per behaviour
MaxKeyEvents == 1
\* pieces of debris per game
MaxDebris == 4
\* milliseconds between two frames of the display (20 frames a second)
MiniFrameMs == 50

\* the keys the player uses, and where debris appears
MiniKeys == {"ArrowRight", "ArrowUp"}
MiniDebrisX == {620}

\* what Math.random can decide in the next update: the debris of a game comes
\* as a shower, a piece in each of its first updates, MaxDebris at most
MiniSpawns(m) ==
    {<<>>} \cup (IF m.spawned = m.score /\ m.spawned < MaxDebris
                 THEN {<<x>> : x \in MiniDebrisX} ELSE {})

\* the states from which a game starts have no update behind them
MiniFresh == [mini EXCEPT !.spawned = 0, !.score = 0]

\* the player clicks the start button of the menu
StartGame ==
    /\ mini.menu
    /\ mini.loop = 0
    /\ mini.games < MaxGames
    /\ \E spawn \in MiniSpawns(MiniFresh) : mini' = MiniInitGame(mini, now, spawn)
    /\ UNCHANGED <<game, sim, ui, timers, frames, now, obs>>

\* the player presses a key and holds it
KeyDown ==
    \E key \in MiniKeys :
        /\ mini.gameState = "playing"
        /\ mini.keyEvents < MaxKeyEvents
        /\ key \notin mini.keys
        /\ mini' = [MiniKeyDown(mini, key) EXCEPT !.keyEvents = @ + 1]
        /\ UNCHANGED <<game, sim, ui, timers, frames, now, obs>>

\* the display shows its next frame and runs the gameLoop requested; the
\* clock is followed for two frames more than a game can last
MiniFrame ==
    /\ mini.loop > 0
    /\ now - mini.startTime < TIME_LIMIT + (2 * MiniFrameMs)
    /\ now' = now + MiniFrameMs
    /\ \E spawn \in MiniSpawns(mini) :
          mini' = MiniGameLoop([mini EXCEPT !.loop = @ - 1], now', spawn)
    /\ UNCHANGED <<game, sim, ui, timers, frames, obs>>

NextMini ==
    \/ StartGame
    \/ KeyDown
    \/ MiniFrame

SpecMini == Init /\ [][NextMini]_vars

\* the updates of a game after which the player of the timed games presses
\* a key: at once, or when the shower is about to reach the ground
MiniKeyTimes == {1, 85, 92}

KeyDownTimed == mini.score \in MiniKeyTimes /\ KeyDown

NextTimed ==
    \/ StartGame
    \/ KeyDownTimed
    \/ MiniFrame

\* the games of such a player, on a display that keeps showing frames
SpecMiniFair == Init /\ [][NextTimed]_vars /\ WF_vars(MiniFrame)

----------------------------------------------------------------------------
(* Properties of the 2D mini-game *)

\* initGame has run
MiniStarted == mini.gameState # "none"

\* C38: in the 2D mini-game lives is within 0..MAX_LIVES in every state,
\* also when several pieces of debris hit in one update, and a game whose
\* lives are 0 has ended as 'lose'
C38_LivesInRange ==
    MiniStarted =>
        /\ mini.lives \in 0..MAX_LIVES
        /\ mini.lives = 0 => mini.gameState = "lose"

\* the parts of C38's statement, each alone
C38_LivesNotNegative == MiniStarted => mini.lives >= 0
C38_LivesAtMost == MiniStarted => mini.lives <= MAX_LIVES
C38_ZeroLoses == (MiniStarted /\ mini.lives = 0) => mini.gameState = "lose"
C38_ZeroEnds == (MiniStarted /\ mini.lives <= 0) => mini.gameState # "playing"

MiniPlaying == mini.gameState = "playing"
MiniOver == mini.gameState \in {"win", "lose"}

\* no update with elapsed >= TIME_LIMIT leaves the game playing
C39_InTime == MiniPlaying => now - mini.startTime < TIME_LIMIT

\* a game that is over stays as it is until initGame runs again: no update
\* touches the state, the score, the lives, the player or the debris
C39_TerminalStep ==
    (MiniOver /\ mini'.games = mini.games) =>
        /\ mini'.gameState = mini.gameState
        /\ mini'.score = mini.score
        /\ mini'.lives = mini.lives
        /\ mini'.player = mini.player
        /\ mini'.debris = mini.debris

\* C39: the 2D mini-game terminates: gameState leaves 'playing' no later
\* than the first update with elapsed >= TIME_LIMIT, and once it is 'win'
\* or 'lose' no update runs any more and the state is terminal until
\* initGame is called again
C39_Terminates ==
    /\ []C39_InTime
    /\ [][C39_TerminalStep]_vars
    /\ (MiniPlaying ~> MiniOver)

\* the parts of C39 that speak of single states and steps, for the games of
\* any player
C39_StaysOver == [][C39_TerminalStep]_vars
C39_OverInTime == MiniStarted => C39_InTime

\* a game nobody played has ended at the time limit with its result shown,
\* and the score counts the updates that ran
C39_TimedOut ==
    /\ mini.gameState = "lose"
    /\ mini.lives = MAX_LIVES
    /\ now - mini.startTime > TIME_LIMIT
    /\ mini.menu
    /\ mini.score = (((TIME_LIMIT + MiniFrameMs) - 1) \div MiniFrameMs) + 1

====
